---------------------------- MODULE Spec2Model ----------------------------
(***************************************************************************)
(* A model of the Evernote HTML -> Markdown converter of evernote2md.py    *)
(* (class EvernoteHTMLToMarkdownConverter).                                *)
(*                                                                         *)
(* Text is a sequence of atoms.  An atom is a one-character string, or a   *)
(* multi-character string that no pattern of the converter can split (a    *)
(* URL scheme prefix such as "http://", a fixed message).  Every regular   *)
(* expression of the source is modelled by the set of positions it         *)
(* matches, computed the way Python's re engine scans: leftmost match,     *)
(* greedy with backtracking, matches that do not overlap.                  *)
(***************************************************************************)
EXTENDS Integers, Sequences, FiniteSets, TLC

(***************************************************************************)
(* Characters and strings                                                  *)
(***************************************************************************)
BS == "\\"
NL == "\n"
SP == " "
\* the backtick character (a TLA+ string cannot hold it)
BACKTICK == "BACKTICK"

\* the URL scheme prefixes of url_pattern, each one atom
Schemes == {"http://", "https://", "ftp://"}

\* \s of Python's re
IsSpace(c) == c \in {" ", "\n", "\t"}

\* \d of Python's re
IsDigit(c) == c \in {"0", "1", "2", "3", "4", "5", "6", "7", "8", "9"}

Letters == {"a", "b", "c", "d", "e", "f", "g", "h", "x", "y", "z", "G", "N", "u", "s"}

\* the first character of the atom is a \w character
StartsWithWord(c) == IsDigit(c) \/ c \in Letters \/ c = "_" \/ c \in Schemes

\* the last character of the atom is a \w character (a scheme ends with "/")
EndsWithWord(c) == IsDigit(c) \/ c \in Letters \/ c = "_"

\* the concatenation of a sequence of strings
RECURSIVE Concat(_)
Concat(ss) == IF ss = <<>> THEN <<>> ELSE Head(ss) \o Concat(Tail(ss))

\* sep.join(ss)
RECURSIVE Join(_, _)
Join(sep, ss) ==
    IF ss = <<>> THEN <<>>
    ELSE IF Len(ss) = 1 THEN Head(ss)
    ELSE Head(ss) \o sep \o Join(sep, Tail(ss))

\* s with a backslash inserted before every position of P
InsertBackslash(s, P) ==
    LET F[i \in 0..Len(s)] ==
            IF i = 0 THEN <<>>
            ELSE F[i-1] \o (IF i \in P THEN <<BS, s[i]>> ELSE <<s[i]>>)
    IN  F[Len(s)]

\* s.replace(c, r) for a one-atom c
ReplaceAtom(s, c, r) ==
    LET F[i \in 0..Len(s)] ==
            IF i = 0 THEN <<>>
            ELSE F[i-1] \o (IF s[i] = c THEN r ELSE <<s[i]>>)
    IN  F[Len(s)]

\* the first and the last position of the maximal run of atoms of C around i
RunStart(s, i, C) ==
    CHOOSE r \in 1..i : /\ \A k \in r..i : s[k] \in C
                        /\ (r = 1 \/ s[r-1] \notin C)
RunEnd(s, i, C) ==
    CHOOSE e \in i..Len(s) : /\ \A k \in i..e : s[k] \in C
                             /\ (e = Len(s) \/ s[e+1] \notin C)

\* position i is the first non-space position of its line: only white space
\* lies between the start of the line (or an earlier line) and i
OnlySpaceBefore(s, i) ==
    \A j \in 1..(i-1) : IsSpace(s[j]) \/ \E k \in (j+1)..(i-1) : s[k] = NL

\* needle occurs in s as a contiguous substring
IsSubstring(needle, s) ==
    \E i \in 0..(Len(s) - Len(needle)) :
        \A k \in 1..Len(needle) : s[i + k] = needle[k]

\* s.strip()
Strip(s) ==
    IF \A i \in 1..Len(s) : IsSpace(s[i]) THEN <<>>
    ELSE LET a == CHOOSE i \in 1..Len(s) :
                      ~IsSpace(s[i]) /\ \A j \in 1..(i-1) : IsSpace(s[j])
             b == CHOOSE i \in 1..Len(s) :
                      ~IsSpace(s[i]) /\ \A j \in (i+1)..Len(s) : IsSpace(s[j])
         IN  SubSeq(s, a, b)

\* s.replace(pat, rep) for a non-empty pat: leftmost occurrences, not overlapping
RECURSIVE ReplaceSeq(_, _, _)
ReplaceSeq(s, pat, rep) ==
    IF Len(s) < Len(pat) THEN s
    ELSE IF SubSeq(s, 1, Len(pat)) = pat
         THEN rep \o ReplaceSeq(SubSeq(s, Len(pat) + 1, Len(s)), pat, rep)
         ELSE << s[1] >> \o ReplaceSeq(Tail(s), pat, rep)

\* the least position p >= from with s[p] = c, or 0
FindAtom(s, c, from) ==
    IF \E p \in from..Len(s) : s[p] = c
    THEN CHOOSE p \in from..Len(s) : s[p] = c /\ \A q \in from..(p-1) : s[q] # c
    ELSE 0

\* the character class [0-9a-f-]
IsHex(c) == IsDigit(c) \/ c \in {"a", "b", "c", "d", "e", "f", "-"}
HexAtoms == {"0", "1", "2", "3", "4", "5", "6", "7", "8", "9",
             "a", "b", "c", "d", "e", "f", "-"}

\* n copies of s
RECURSIVE Repeat(_, _)
Repeat(s, n) == IF n <= 0 THEN <<>> ELSE s \o Repeat(s, n - 1)

\* str(n) for n >= 0
Digit(n) == <<"0", "1", "2", "3", "4", "5", "6", "7", "8", "9">>[n + 1]
\* int(ds) for a string of digits
RECURSIVE FromDigits(_)
FromDigits(ds) ==
    IF ds = <<>> THEN 0
    ELSE 10 * FromDigits(SubSeq(ds, 1, Len(ds) - 1))
         + (CHOOSE n \in 0..9 : Digit(n) = ds[Len(ds)])

RECURSIVE ToDec(_)
ToDec(n) == IF n < 10 THEN << Digit(n) >> ELSE ToDec(n \div 10) \o << Digit(n % 10) >>


(***************************************************************************)
(* Text Escaper: url_pattern, escape_non_url, _escape_text                 *)
(***************************************************************************)

\* url_pattern matches at position i of s: \b(?:http|https|ftp)://\S+
UrlAt(s, i) ==
    /\ i \in 1..Len(s)
    /\ s[i] \in Schemes
    /\ (i = 1 \/ ~EndsWithWord(s[i-1]))
    /\ i < Len(s)
    /\ ~IsSpace(s[i+1])

\* the last position of the match of url_pattern that starts at i (\S+ is greedy)
UrlEnd(s, i) ==
    CHOOSE e \in (i+1)..Len(s) : /\ \A k \in (i+1)..e : ~IsSpace(s[k])
                                 /\ (e = Len(s) \/ IsSpace(s[e+1]))

\* re.split('(' + url_pattern + ')', text): the parts, URLs at the even places
RECURSIVE SplitUrlsFrom(_, _, _)
SplitUrlsFrom(s, start, i) ==
    IF i > Len(s) THEN << SubSeq(s, start, Len(s)) >>
    ELSE IF UrlAt(s, i)
         THEN << SubSeq(s, start, i-1), SubSeq(s, i, UrlEnd(s, i)) >>
              \o SplitUrlsFrom(s, UrlEnd(s, i) + 1, UrlEnd(s, i) + 1)
         ELSE SplitUrlsFrom(s, start, i + 1)

SplitUrls(s) == SplitUrlsFrom(s, 1, 1)

\* pass 1: the character class of [ ] backtick * $
Pass1(s) == InsertBackslash(s, {i \in 1..Len(s) : s[i] \in {"[", "]", BACKTICK, "*", "$"}})

\* pass 2: (^|\s)([_]+)(?=\S), every underscore of the match escaped
Pass2(s) ==
    InsertBackslash(s, {i \in 1..Len(s) :
        /\ s[i] = "_"
        /\ LET r == RunStart(s, i, {"_"})
               e == RunEnd(s, i, {"_"})
           IN  /\ (r = 1 \/ IsSpace(s[r-1]))
               /\ IF e < Len(s) /\ ~IsSpace(s[e+1]) THEN TRUE ELSE i < e })

\* pass 3: part.replace("%%", "%\\%")
Pass3(s) ==
    InsertBackslash(s, {i \in 1..Len(s) :
        /\ s[i] = "%"
        /\ (i - RunStart(s, i, {"%"})) % 2 = 1 })

\* pass 4: <(?=[^>]+>)
Pass4(s) ==
    InsertBackslash(s, {i \in 1..Len(s) :
        /\ s[i] = "<"
        /\ i < Len(s)
        /\ s[i+1] # ">"
        /\ \E j \in (i+2)..Len(s) : s[j] = ">" })

\* pass 5: (^|\s)(#)(?=\S)(?!#)
Pass5(s) ==
    InsertBackslash(s, {i \in 1..Len(s) :
        /\ s[i] = "#"
        /\ (i = 1 \/ IsSpace(s[i-1]))
        /\ i < Len(s)
        /\ ~IsSpace(s[i+1])
        /\ s[i+1] # "#" })

\* pass 6: (^|\s)(\^)(?=\S)
Pass6(s) ==
    InsertBackslash(s, {i \in 1..Len(s) :
        /\ s[i] = "^"
        /\ (i = 1 \/ IsSpace(s[i-1]))
        /\ i < Len(s)
        /\ ~IsSpace(s[i+1]) })

\* pass 7: ([=~]{2,})(?=\S), every character of the match escaped
Pass7(s) ==
    InsertBackslash(s, {i \in 1..Len(s) :
        /\ s[i] \in {"=", "~"}
        /\ LET r == RunStart(s, i, {"=", "~"})
               e == RunEnd(s, i, {"=", "~"})
           IN  IF e < Len(s) /\ ~IsSpace(s[e+1])
               THEN e - r + 1 >= 2
               ELSE e - r + 1 >= 3 /\ i < e })

\* pass 8: (?m)^(\s*)([\-+=>#|])
Pass8(s) ==
    InsertBackslash(s, {i \in 1..Len(s) :
        /\ s[i] \in {"-", "+", "=", ">", "#", "|"}
        /\ OnlySpaceBefore(s, i) })

\* pass 9: (?m)^(\s*\d+)(\.\s+): the positions of the dots it escapes, scanning
\* from p; a match swallows the white space that follows its dot
RECURSIVE Pass9From(_, _)
Pass9From(s, p) ==
    IF p > Len(s) THEN {}
    ELSE IF ~(p = 1 \/ s[p-1] = NL) THEN Pass9From(s, p + 1)
    ELSE LET w == IF IsSpace(s[p]) THEN RunEnd(s, p, {" ", "\n", "\t"}) + 1 ELSE p
             d == IF w <= Len(s) /\ IsDigit(s[w])
                  THEN RunEnd(s, w, {"0", "1", "2", "3", "4", "5", "6", "7", "8", "9"}) + 1
                  ELSE 0
         IN  IF /\ d > 0
                /\ d < Len(s)
                /\ s[d] = "."
                /\ IsSpace(s[d+1])
             THEN {d} \cup Pass9From(s, RunEnd(s, d + 1, {" ", "\n", "\t"}) + 1)
             ELSE Pass9From(s, p + 1)

\* Pass9 with (\.\s*) for (\.\s+): the dot escaped whatever follows it
Pass9AnyDot(s) ==
    InsertBackslash(s, {i \in 1..Len(s) :
        /\ s[i] = "."
        /\ i > 1
        /\ IsDigit(s[i-1])
        /\ OnlySpaceBefore(s, RunStart(s, i - 1,
               {"0", "1", "2", "3", "4", "5", "6", "7", "8", "9"})) })

Pass9(s) == InsertBackslash(s, Pass9From(s, 1))

\* the table pass: part.replace("|", r"\|")
PassTable(s) == ReplaceAtom(s, "|", <<BS, "|">>)

\* escape_non_url without the test for a URL
escape_non_url_NoUrlTest(part, in_table) ==
    LET p9 == Pass9(Pass8(Pass7(Pass6(Pass5(Pass4(Pass3(Pass2(Pass1(part)))))))))
    IN  IF in_table THEN PassTable(p9) ELSE p9

\* escape_non_url(part), with the instance's inside_table flag
escape_non_url(part, in_table) ==
    IF UrlAt(part, 1) THEN part
    ELSE LET p9 == Pass9(Pass8(Pass7(Pass6(Pass5(Pass4(Pass3(Pass2(Pass1(part)))))))))
         IN  IF in_table THEN PassTable(p9) ELSE p9

RECURSIVE EscapeParts(_, _)
EscapeParts(parts, in_table) ==
    IF parts = <<>> THEN <<>>
    ELSE escape_non_url(Head(parts), in_table) \o EscapeParts(Tail(parts), in_table)

\* _escape_text(node) for a text node holding text
escape_text(text, in_pre, in_table) ==
    IF text = <<>> THEN <<>>
    ELSE IF in_pre THEN text
    ELSE EscapeParts(SplitUrls(text), in_table)

(***************************************************************************)
(* The tree of the Tree Provider.  A node is a record: name ("#text" for a *)
(* text node), attrs (attribute name -> string), text (of a text node) and *)
(* children.                                                               *)
(***************************************************************************)
NoAttrs == <<>>

Txt(t) == [name |-> "#text", attrs |-> NoAttrs, text |-> t, children |-> <<>>]

El(name, attrs, children) ==
    [name |-> name, attrs |-> attrs, text |-> <<>>, children |-> children]

\* node.get(k, d)
GetAttr(node, k, d) == IF k \in DOMAIN node.attrs THEN node.attrs[k] ELSE d

\* node.get('style', '')
StyleOf(node) == GetAttr(node, "style", <<>>)

\* the vendor pseudo-properties of a style string, each one atom
CODEBLOCK == "--en-codeblock:true"
TASKGROUP == "--en-task-group:true"
TOC       == "--en-tableofcontents:true"
ENID      == "--en-id:"
CHECKED   == "--en-checked:"

\* x in style, for a one-atom x
InStyle(x, style) == \E i \in 1..Len(style) : style[i] = x

block_level_elements ==
    {"address", "article", "aside", "blockquote", "canvas",
     "dd", "details", "div", "dl", "dt", "fieldset", "figcaption", "figure",
     "footer", "h1", "h2", "h3", "h4", "h5", "h6", "header", "hr", "li",
     "main", "nav", "ol", "p", "pre", "section", "table",
     "tfoot", "ul", "video"}

(***************************************************************************)
(* Input trees of lists: every tree of ul, ol and li elements with at most *)
(* MaxListNodes elements.  A list holds items and lists; an item holds its *)
(* text and then lists.  The text of an item names the depth of the item   *)
(* (the number of lists around it): "a" at depth 1, "b" at depth 2, ...    *)
(***************************************************************************)
MaxListNodes == 5

DepthLetter(d) == <<"a", "b", "c", "d", "e", "f", "g", "h">>[d]

ItemStyles == { NoAttrs, [style |-> <<CHECKED, "true", ";">>] }

RECURSIVE ListForest(_, _, _), ListTree(_, _, _)
\* the sequences of trees of the given kinds with n elements in all, the lists
\* among them at depth d
ListForest(n, d, kinds) ==
    IF n = 0 THEN { <<>> }
    ELSE UNION { { <<t>> \o f : t \in ListTree(k, d, kinds),
                                f \in ListForest(n - k, d, kinds) } : k \in 1..n }

\* the trees with exactly n elements whose root is of one of the kinds
ListTree(n, d, kinds) ==
    (IF "list" \in kinds /\ n >= 2
     THEN { El(nm, NoAttrs, f) : nm \in {"ul", "ol"},
                                 f \in ListForest(n - 1, d + 1, {"list", "li"}) }
     ELSE {})
    \cup
    (IF "li" \in kinds /\ d >= 2
     THEN { El("li", a, << Txt(<< DepthLetter(d - 1) >>) >> \o f) :
                a \in ItemStyles, f \in ListForest(n - 1, d, {"list"}) }
     ELSE {})

ListDocs ==
    UNION { { El("[document]", NoAttrs, f) : f \in ListForest(n, 1, {"list"}) }
            : n \in 2..MaxListNodes }

(***************************************************************************)
(* The converter instance, and the recursion of _process_node as a stack   *)
(* of frames: kind (the handler that is waiting for the children), node,   *)
(* i (the next child), acc (the text of the children so far), t (the       *)
(* locals of _process_table).                                              *)
(***************************************************************************)
VARIABLES
    use_html,       \* self.use_html, set by __init__
    soup,           \* self.soup: the tree of the current call
    md_properties,  \* the md_properties argument of the current call
    tasks,          \* self.tasks
    guid_to_path,   \* self.guid_to_path
    hash_to_path,   \* self.hash_to_path
    options,        \* self.options
    list_stack,     \* self.list_stack
    indent_level,   \* self.indent_level
    number_indent,  \* self.number_indent
    warnings,       \* self.warnings
    inside_pre,     \* self.inside_pre
    inside_table,   \* self.inside_table
    frames,         \* the active calls of the handlers, outermost first
    pc,             \* "idle", "running", "returned", "raised"
    result,         \* what the call returned, or the exception it raised
    calls,          \* the calls made on this instance so far
    export          \* the locals of Exporter.export in its first pass

vars == << use_html, soup, md_properties, tasks, guid_to_path, hash_to_path,
           options, list_stack, indent_level, number_indent, warnings,
           inside_pre, inside_table, frames, pc, result, calls, export >>

args == << md_properties, tasks, guid_to_path, hash_to_path, options >>
state == << list_stack, indent_level, number_indent, warnings, inside_pre, inside_table >>

\* Exporter.export has not been called
NotExporting ==
    [cfg |-> <<>>, guid_to_path_rel |-> <<>>, guid_to_path_abs |-> <<>>,
     path_to_guid |-> <<>>, filenames_set |-> {}, notebook_data |-> <<>>,
     notebook |-> 0, title |-> <<>>]

NoResult == [markdown |-> <<>>, warnings |-> <<>>, exception |-> "none"]

Frame(kind, node) == [kind |-> kind, node |-> node, i |-> 1, acc |-> <<>>, t |-> <<>>]

Top == frames[Len(frames)]

\* the handler on top of the stack is about to process its next child
AtChild ==
    /\ pc = "running"
    /\ Top.kind # "table"
    /\ Top.i <= Len(Top.node.children)

Child == Top.node.children[Top.i]

\* the handler of kind k on top of the stack has processed all its children
AtEnd(k) ==
    /\ pc = "running"
    /\ Top.kind = k
    /\ Top.i > Len(Top.node.children)

\* return text r to the calling handler, which appends it (save_result)
ReturnFrames(r) ==
    [SubSeq(frames, 1, Len(frames) - 1) EXCEPT
        ![Len(frames) - 1].acc = @ \o r,
        ![Len(frames) - 1].i = @ + 1]

\* a leaf child has produced text r
AdvanceFrames(r) ==
    [frames EXCEPT ![Len(frames)].acc = @ \o r, ![Len(frames)].i = @ + 1]

\* the exception exc propagates out of convert_html_to_markdown; the instance
\* keeps the state it had
Raise(exc) ==
    /\ pc' = "raised"
    /\ result' = [NoResult EXCEPT !.exception = exc]
    /\ calls' = Append(calls, [soup |-> soup, args |-> args,
                               result |-> [NoResult EXCEPT !.exception = exc]])

\* _process_node_children: entering and leaving a code block
EntersCodeblock(node) == InStyle(CODEBLOCK, StyleOf(node))

(***************************************************************************)
(* __init__                                                                *)
(***************************************************************************)
Init ==
    /\ use_html \in BOOLEAN
    /\ soup = El("[document]", NoAttrs, <<>>)
    /\ md_properties = <<>>
    /\ tasks = <<>>
    /\ guid_to_path = <<>>
    /\ hash_to_path = <<>>
    /\ options = <<>>
    /\ list_stack = <<>>
    /\ indent_level = 0
    /\ number_indent = <<>>
    /\ warnings = <<>>
    /\ inside_pre = FALSE
    /\ inside_table = FALSE
    /\ frames = <<>>
    /\ pc = "idle"
    /\ result = NoResult
    /\ calls = <<>>
    /\ export = NotExporting

(***************************************************************************)
(* convert_html_to_markdown, up to the call of _process_node(self.soup)    *)
(***************************************************************************)
\* the tree without its script and style elements (element.decompose())
RECURSIVE Decomposed(_)
Decomposed(node) ==
    LET keep == SelectSeq(node.children, LAMBDA c : c.name \notin {"script", "style"})
    IN  [node EXCEPT !.children = [k \in 1..Len(keep) |-> Decomposed(keep[k])]]

\* Convert without the reset of self.inside_table
ConvertKeepInsideTable(doc, props, tk, g2p, h2p, opts) ==
    /\ pc \in {"idle", "returned", "raised"}
    /\ soup' = Decomposed(doc)
    /\ md_properties' = props
    /\ tasks' = tk
    /\ guid_to_path' = g2p
    /\ hash_to_path' = h2p
    /\ options' = opts
    /\ list_stack' = <<>>
    /\ indent_level' = 0
    /\ number_indent' = <<>>
    /\ warnings' = <<>>
    /\ inside_pre' = FALSE
    /\ frames' = << Frame("root", Decomposed(doc)) >>
    /\ pc' = "running"
    /\ result' = NoResult
    /\ UNCHANGED << export, use_html, inside_table, calls >>

Convert(doc, props, tk, g2p, h2p, opts) ==
    /\ pc \in {"idle", "returned", "raised"}
    /\ soup' = Decomposed(doc)
    /\ md_properties' = props
    /\ tasks' = tk
    /\ guid_to_path' = g2p
    /\ hash_to_path' = h2p
    /\ options' = opts
    /\ list_stack' = <<>>
    /\ indent_level' = 0
    /\ number_indent' = <<>>
    /\ warnings' = <<>>
    /\ inside_pre' = FALSE
    /\ inside_table' = FALSE
    /\ frames' = << Frame("root", Decomposed(doc)) >>
    /\ pc' = "running"
    /\ result' = NoResult
    /\ UNCHANGED << export, use_html, calls >>

(***************************************************************************)
(* _process_node on a text node                                            *)
(***************************************************************************)
ProcessText ==
    /\ AtChild
    /\ Child.name = "#text"
    /\ frames' = AdvanceFrames(IF Child.text = <<NL>> THEN <<>>
                               ELSE escape_text(Child.text, inside_pre, inside_table))
    /\ UNCHANGED << export, use_html, soup, args, state, pc, result, calls >>

(***************************************************************************)
(* _process_node on an element without a rule: its children, in order      *)
(***************************************************************************)
RuleNames ==
    {"#text", "div", "p", "span", "font", "b", "strong", "i", "em", "u", "s",
     "del", "sup", "sub", "blockquote", "code", "h1", "h2", "h3", "h4", "h5",
     "h6", "ul", "ol", "li", "table", "a", "img", "br", "hr", "en-todo",
     "en-media"}

\* EnterOther as if the element were processed by _process_node_children
EnterOtherAsContainer ==
    /\ AtChild
    /\ Child.name \notin RuleNames
    /\ frames' = Append(frames, Frame("other", Child))
    /\ inside_pre' = (EntersCodeblock(Child) \/ inside_pre)
    /\ UNCHANGED << export, use_html, soup, args, list_stack, indent_level,
                    number_indent, warnings, inside_table, pc, result, calls >>

EnterOther ==
    /\ AtChild
    /\ Child.name \notin RuleNames
    /\ frames' = Append(frames, Frame("other", Child))
    /\ UNCHANGED << export, use_html, soup, args, state, pc, result, calls >>

ExitOther ==
    /\ AtEnd("other")
    /\ frames' = ReturnFrames(Top.acc)
    /\ UNCHANGED << export, use_html, soup, args, state, pc, result, calls >>

(***************************************************************************)
(* _process_node on br and hr                                              *)
(***************************************************************************)
ProcessBreak ==
    /\ AtChild
    /\ Child.name \in {"br", "hr"}
    /\ frames' = AdvanceFrames(IF Child.name = "br" THEN <<NL>>
                               ELSE <<"_", "_", "_", NL>>)
    /\ UNCHANGED << export, use_html, soup, args, state, pc, result, calls >>

(***************************************************************************)
(* _newline_prefix and _use_html                                           *)
(***************************************************************************)
\* the frame of the handler that called the handler on top of the stack: its
\* node is the parent of Top.node, its i the place of Top.node among the children
Caller == frames[Len(frames) - 1]

\* _newline_prefix(Top.node)
newline_prefix ==
    IF /\ Top.node.name \in block_level_elements
       /\ Caller.i > 1
       /\ Caller.node.children[Caller.i - 1].name # "#text"
       /\ Caller.node.children[Caller.i - 1].name \notin block_level_elements
    THEN <<NL>> ELSE <<>>

\* the warning with "Added" whatever the flag is
UseHtmlWarningAdded(html) == << "Added unsupported HTML: ", html >>

\* the warning _use_html(html) appends; it returns self.use_html
UseHtmlWarning(html) ==
    << IF use_html THEN "Added unsupported HTML: " ELSE "Removed unsupported HTML: ",
       html >>

(***************************************************************************)
(* _process_div                                                            *)
(***************************************************************************)
EnterDiv ==
    /\ AtChild
    /\ Child.name = "div"
    /\ frames' = Append(frames, Frame("div", Child))
    /\ inside_pre' = (EntersCodeblock(Child) \/ inside_pre)
    /\ UNCHANGED << export, use_html, soup, args, list_stack, indent_level,
                    number_indent, warnings, inside_table, pc, result, calls >>

TOC_WARNING == "Ignored Table of Contents (conversion not implemented)"
TOC_TEXT ==
    "==Evernote Table of Contents removed during conversion! In Obsidian, use \"Open linked view\" > \"Open outline\" instead.=="

\* the positions where "--en-syntaxLanguage:(.+?);" matches
LanguageAt(style) ==
    { p \in 1..Len(style) :
        /\ style[p] = "--en-syntaxLanguage:"
        /\ FindAtom(style, ";", p + 2) # 0
        /\ \A k \in (p+1)..(FindAtom(style, ";", p + 2) - 1) : style[k] # NL }

\* (re.findall("--en-syntaxLanguage:(.+?);", style) or [""])[0]
SyntaxLanguage(style) ==
    IF LanguageAt(style) = {} THEN <<>>
    ELSE LET p == CHOOSE p \in LanguageAt(style) : \A q \in LanguageAt(style) : p <= q
         IN  SubSeq(style, p + 1, FindAtom(style, ";", p + 2) - 1)

\* the positions where "--en-id:([0-9a-f-]+);" matches
EnIdAt(style) ==
    { p \in 1..Len(style) :
        /\ style[p] = ENID
        /\ p < Len(style)
        /\ IsHex(style[p+1])
        /\ RunEnd(style, p + 1, HexAtoms) < Len(style)
        /\ style[RunEnd(style, p + 1, HexAtoms) + 1] = ";" }

\* re.findall("--en-id:([0-9a-f-]+);", style)[0], when there is a match
FirstEnId(style) ==
    LET p == CHOOSE p \in EnIdAt(style) : \A q \in EnIdAt(style) : p <= q
    IN  SubSeq(style, p + 1, RunEnd(style, p + 1, HexAtoms))

\* re.findall(r"(?:padding|margin)-left\s*:\s*(\d+)\s*px", style): the places
\* of the digits of the matches
PaddingAt(style) ==
    { p \in 2..Len(style) :
        /\ IsDigit(style[p])
        /\ \E a \in 1..(p-1) :
              /\ style[a] \in {"padding-left:", "margin-left:"}
              /\ \A k \in (a+1)..(p-1) : IsSpace(style[k])
        /\ LET e == RunEnd(style, p, {"0", "1", "2", "3", "4", "5", "6", "7", "8", "9"})
           IN  \E b \in (e+1)..Len(style) :
                  /\ style[b] = "px"
                  /\ \A k \in (e+1)..(b-1) : IsSpace(style[k]) }

\* "    " * (int(padding_left[0]) // 40)
PaddingIndent(style) ==
    LET p == CHOOSE p \in PaddingAt(style) : \A q \in PaddingAt(style) : p <= q
        n == FromDigits(SubSeq(style, p,
                 RunEnd(style, p, {"0", "1", "2", "3", "4", "5", "6", "7", "8", "9"})))
    IN  Repeat(<<SP, SP, SP, SP>>, n \div 40)

\* the last three lines of _process_div
DivReturn(r) ==
    newline_prefix
    \o (IF r # <<>> /\ r[Len(r)] = NL THEN SubSeq(r, 1, Len(r) - 1) ELSE r)
    \o <<NL>>

ExitDiv ==
    /\ AtEnd("div")
    /\ LET style  == StyleOf(Top.node)
           body   == Top.acc
           align  == IF inside_table THEN "none"
                     ELSE IF InStyle("text-align:center", style) THEN "center"
                     ELSE IF InStyle("text-align:right", style) THEN "right"
                     ELSE "none"
           aligned == IF align = "center" /\ use_html
                      THEN <<"<center>">> \o body \o <<"</center>">>
                      ELSE IF align = "right" /\ use_html
                      THEN <<"<span style=\"", "position:absolute;right: 0px;", "\">">>
                           \o body \o <<"</span>", NL>>
                      ELSE body
           padded == IF PaddingAt(style) = {} THEN aligned
                     ELSE ReplaceAtom(PaddingIndent(style) \o aligned, NL,
                                      <<NL>> \o PaddingIndent(style))
       IN  /\ inside_pre' = IF EntersCodeblock(Top.node) THEN FALSE ELSE inside_pre
           /\ IF InStyle(TOC, style)
              THEN /\ warnings' = Append(warnings, << TOC_WARNING >>)
                   /\ frames' = ReturnFrames(DivReturn(<< TOC_TEXT >>))
                   /\ UNCHANGED << pc, result, calls >>
              ELSE IF InStyle(CODEBLOCK, style)
              THEN /\ frames' = ReturnFrames(DivReturn(
                          <<BACKTICK, BACKTICK, BACKTICK>> \o SyntaxLanguage(style)
                          \o <<NL>> \o body \o <<BACKTICK, BACKTICK, BACKTICK>>))
                   /\ UNCHANGED << warnings, pc, result, calls >>
              ELSE IF InStyle(TASKGROUP, style)
              THEN IF EnIdAt(style) = {}
                   THEN /\ Raise("IndexError")
                        /\ UNCHANGED << warnings, frames >>
                   ELSE /\ frames' = ReturnFrames(DivReturn(
                              IF FirstEnId(style) \in DOMAIN tasks
                              THEN tasks[FirstEnId(style)]
                              ELSE <<"-", SP, "[", SP, "]", SP,
                                     "==Could not find task(s) ID ">>
                                   \o FirstEnId(style)
                                   \o <<" during conversion==">>))
                        /\ UNCHANGED << warnings, pc, result, calls >>
              ELSE /\ warnings' =
                          IF align = "center"
                          THEN Append(warnings, UseHtmlWarning("text-align:center / <center>"))
                          ELSE IF align = "right"
                          THEN Append(warnings, UseHtmlWarning("text-align:right / <span>"))
                          ELSE warnings
                   /\ frames' = ReturnFrames(DivReturn(padded))
                   /\ UNCHANGED << pc, result, calls >>
    /\ UNCHANGED << export, use_html, soup, args, list_stack, indent_level,
                    number_indent, inside_table >>

(***************************************************************************)
(* _process_list                                                           *)
(***************************************************************************)
\* EnterList with the ordinal counter of a depth kept when it exists already
EnterListKeepCounter ==
    /\ AtChild
    /\ Child.name \in {"ul", "ol"}
    /\ list_stack' = Append(list_stack, Child.name)
    /\ indent_level' = indent_level + 1
    /\ number_indent' = IF Child.name = "ol"
                        THEN number_indent @@ ((indent_level + 1) :> 0)
                        ELSE number_indent
    /\ frames' = Append(frames,
           [Frame("list", Child) EXCEPT
               !.acc = IF Top.node.name = "li" THEN <<NL>> ELSE <<>>])
    /\ UNCHANGED << export, use_html, soup, args, warnings, inside_pre, inside_table,
                    pc, result, calls >>

EnterList ==
    /\ AtChild
    /\ Child.name \in {"ul", "ol"}
    /\ list_stack' = Append(list_stack, Child.name)
    /\ indent_level' = indent_level + 1
    /\ number_indent' = IF Child.name = "ol"
                        THEN ((indent_level + 1) :> 0) @@ number_indent
                        ELSE number_indent
    /\ frames' = Append(frames,
           [Frame("list", Child) EXCEPT
               !.acc = IF Top.node.name = "li" THEN <<NL>> ELSE <<>>])
    /\ UNCHANGED << export, use_html, soup, args, warnings, inside_pre, inside_table,
                    pc, result, calls >>

\* ExitList without list_stack.pop()
ExitListNoPop ==
    /\ AtEnd("list")
    /\ indent_level' = indent_level - 1
    /\ frames' = ReturnFrames(Top.acc)
    /\ UNCHANGED << export, use_html, soup, args, list_stack, number_indent, warnings,
                    inside_pre, inside_table, pc, result, calls >>

ExitList ==
    /\ AtEnd("list")
    /\ indent_level' = indent_level - 1
    /\ list_stack' = SubSeq(list_stack, 1, Len(list_stack) - 1)
    /\ frames' = ReturnFrames(Top.acc)
    /\ UNCHANGED << export, use_html, soup, args, number_indent, warnings, inside_pre,
                    inside_table, pc, result, calls >>

(***************************************************************************)
(* _process_list_item                                                      *)
(***************************************************************************)
EnterListItem ==
    /\ AtChild
    /\ Child.name = "li"
    /\ frames' = Append(frames,
           [Frame("li", Child) EXCEPT
               !.t = [indent |-> Repeat(<<SP, SP, SP, SP>>, indent_level - 1)]])
    /\ inside_pre' = (EntersCodeblock(Child) \/ inside_pre)
    /\ UNCHANGED << export, use_html, soup, args, list_stack, indent_level,
                    number_indent, warnings, inside_table, pc, result, calls >>

\* the content of the item: stripped, every line break followed by the indent
\* and three spaces
ItemContent(acc, indent) ==
    ReplaceAtom(Strip(acc), NL, <<NL>> \o indent \o <<SP, SP, SP>>)

\* ExitListItem with the test of the ordered list before that of the checkbox
ExitListItemOrdinalFirst ==
    /\ AtEnd("li")
    /\ LET indent  == Top.t.indent
           content == ItemContent(Top.acc, indent)
           style   == StyleOf(Top.node)
       IN  /\ inside_pre' = IF EntersCodeblock(Top.node) THEN FALSE ELSE inside_pre
           /\ IF list_stack # <<>> /\ list_stack[Len(list_stack)] = "ol"
              THEN IF indent_level \in DOMAIN number_indent
                   THEN /\ number_indent' =
                              [number_indent EXCEPT ![indent_level] = @ + 1]
                        /\ frames' = ReturnFrames(
                              indent \o ToDec(number_indent[indent_level] + 1)
                              \o <<".", SP>> \o content \o <<NL>>)
                        /\ UNCHANGED << pc, result, calls >>
                   ELSE /\ Raise("KeyError")
                        /\ UNCHANGED << number_indent, frames >>
              ELSE IF \E k \in 1..Len(style) : style[k] = CHECKED
              THEN /\ frames' = ReturnFrames(
                          indent \o <<"-", SP>>
                          \o (IF IsSubstring(<<CHECKED, "true">>, style)
                              THEN <<"[", "x", "]">> ELSE <<"[", SP, "]">>)
                          \o <<SP>> \o content \o <<NL>>)
                   /\ UNCHANGED << number_indent, pc, result, calls >>
              ELSE /\ frames' = ReturnFrames(indent \o <<"-", SP>> \o content \o <<NL>>)
                   /\ UNCHANGED << number_indent, pc, result, calls >>
    /\ UNCHANGED << export, use_html, soup, args, list_stack, indent_level, warnings,
                    inside_table >>

ExitListItem ==
    /\ AtEnd("li")
    /\ LET indent  == Top.t.indent
           content == ItemContent(Top.acc, indent)
           style   == StyleOf(Top.node)
       IN  /\ inside_pre' = IF EntersCodeblock(Top.node) THEN FALSE ELSE inside_pre
           /\ IF \E k \in 1..Len(style) : style[k] = CHECKED
              THEN /\ frames' = ReturnFrames(
                          indent \o <<"-", SP>>
                          \o (IF IsSubstring(<<CHECKED, "true">>, style)
                              THEN <<"[", "x", "]">> ELSE <<"[", SP, "]">>)
                          \o <<SP>> \o content \o <<NL>>)
                   /\ UNCHANGED << number_indent, pc, result, calls >>
              ELSE IF list_stack # <<>> /\ list_stack[Len(list_stack)] = "ol"
              THEN IF indent_level \in DOMAIN number_indent
                   THEN /\ number_indent' =
                              [number_indent EXCEPT ![indent_level] = @ + 1]
                        /\ frames' = ReturnFrames(
                              indent \o ToDec(number_indent[indent_level] + 1)
                              \o <<".", SP>> \o content \o <<NL>>)
                        /\ UNCHANGED << pc, result, calls >>
                   ELSE /\ Raise("KeyError")
                        /\ UNCHANGED << number_indent, frames >>
              ELSE /\ frames' = ReturnFrames(indent \o <<"-", SP>> \o content \o <<NL>>)
                   /\ UNCHANGED << number_indent, pc, result, calls >>
    /\ UNCHANGED << export, use_html, soup, args, list_stack, indent_level, warnings,
                    inside_table >>

(***************************************************************************)
(* _process_link                                                           *)
(***************************************************************************)
EnterLink ==
    /\ AtChild
    /\ Child.name = "a"
    /\ frames' = Append(frames, Frame("link", Child))
    /\ inside_pre' = (EntersCodeblock(Child) \/ inside_pre)
    /\ UNCHANGED << export, use_html, soup, args, list_stack, indent_level,
                    number_indent, warnings, inside_table, pc, result, calls >>

\* the prefixes of the three shapes of an internal link, each one atom
EVERNOTE_VIEW == "evernote:///view/"
WWW_EVERNOTE  == "https://www.evernote.com/"
SHARE_NOTE    == "https://share.evernote.com/note/"

\* the character class [^/]: an atom that holds no slash
NoSlash(c) ==
    c \notin {"/", EVERNOTE_VIEW, WWW_EVERNOTE, SHARE_NOTE, "https://example.com/"}
    /\ c \notin Schemes

\* ([^/]+/){n} matches at position p of h: the position after the match, or 0
RECURSIVE SkipSegments(_, _, _)
SkipSegments(h, p, n) ==
    IF n = 0 THEN p
    ELSE IF p = 0 \/ p > Len(h) \/ ~NoSlash(h[p]) THEN 0
    ELSE LET e == CHOOSE e \in p..Len(h) :
                      /\ \A k \in p..e : NoSlash(h[k])
                      /\ (e = Len(h) \/ ~NoSlash(h[e+1]))
         IN  IF e < Len(h) /\ h[e+1] = "/" THEN SkipSegments(h, e + 2, n - 1) ELSE 0

\* the identifier the first of the three shapes that matches href captures;
\* found is FALSE when no shape matches
LinkGuid(href) ==
    LET p1 == IF href # <<>> /\ href[1] = EVERNOTE_VIEW THEN SkipSegments(href, 2, 2) ELSE 0
        m1 == /\ p1 # 0
              /\ p1 <= Len(href)
              /\ IsHex(href[p1])
              /\ RunEnd(href, p1, HexAtoms) < Len(href)
              /\ href[RunEnd(href, p1, HexAtoms) + 1] = "/"
        p2 == IF href # <<>> /\ href[1] = WWW_EVERNOTE THEN SkipSegments(href, 2, 4) ELSE 0
        m2 == p2 # 0 /\ p2 <= Len(href) /\ IsHex(href[p2])
        m3 == /\ Len(href) >= 2
              /\ href[1] = SHARE_NOTE
              /\ href[2] # NL
        e3 == IF FindAtom(href, NL, 2) = 0 THEN Len(href) ELSE FindAtom(href, NL, 2) - 1
    IN  IF m1 THEN [found |-> TRUE, guid |-> SubSeq(href, p1, RunEnd(href, p1, HexAtoms))]
        ELSE IF m2 THEN [found |-> TRUE, guid |-> SubSeq(href, p2, RunEnd(href, p2, HexAtoms))]
        ELSE IF m3 THEN [found |-> TRUE, guid |-> SubSeq(href, 2, e3)]
        ELSE [found |-> FALSE, guid |-> <<>>]

\* re.search(r'<span style="(.*?)">(.*?)</span>', content): the places of the
\* three delimiters of the first match, or <<0, 0, 0>>
SpanIn(content) ==
    LET Ok(p) ==
            /\ content[p] = "<span style=\""
            /\ FindAtom(content, "\">", p + 1) # 0
            /\ LET q == FindAtom(content, "\">", p + 1)
               IN  /\ \A k \in (p+1)..(q-1) : content[k] # NL
                   /\ FindAtom(content, "</span>", q + 1) # 0
                   /\ \A k \in (q+1)..(FindAtom(content, "</span>", q + 1) - 1) :
                          content[k] # NL
    IN  IF \E p \in 1..Len(content) : Ok(p)
        THEN LET p == CHOOSE p \in 1..Len(content) : Ok(p) /\ \A o \in 1..(p-1) : ~Ok(o)
                 q == FindAtom(content, "\">", p + 1)
             IN  << p, q, FindAtom(content, "</span>", q + 1) >>
        ELSE << 0, 0, 0 >>

\* options.get(k, d) for a flag
Option(k, d) == IF k \in DOMAIN options THEN options[k] ELSE d

\* the warning without the identifier
LinkWarningNoGuid(guid, content) ==
    <<"Path to link GUID not found: ">> \o <<SP, "(">> \o content \o <<")">>

\* the warning about an identifier that has no path
LinkWarning(guid, content) ==
    <<"Path to link GUID not found: ">> \o guid \o <<SP, "(">> \o content \o <<")">>

ExitLink ==
    /\ AtEnd("link")
    /\ LET raw     == GetAttr(Top.node, "href", <<>>)
           href    == IF \E k \in 1..Len(raw) : raw[k] = SP
                      THEN <<"<">> \o raw \o <<">">> ELSE raw
           preview == IF InStyle("--en-viewAs:evernote-note-snippet-preview", StyleOf(Caller.node))
                      THEN <<"!">> ELSE <<>>
           escape  == IF inside_table THEN <<BS>> ELSE <<>>
           span    == SpanIn(Top.acc)
           hasSpan == span[1] # 0
           style   == SubSeq(Top.acc, span[1] + 1, span[2] - 1)
           c1      == IF hasSpan THEN SubSeq(Top.acc, span[2] + 1, span[3] - 1) ELSE Top.acc
           content == IF Option("escape_brackets", FALSE)
                      THEN ReplaceSeq(ReplaceSeq(c1, <<BS, "[">>, <<"(">>), <<BS, "]">>, <<")">>)
                      ELSE c1
           link    == LinkGuid(href)
           known   == /\ link.guid \in DOMAIN guid_to_path
                      /\ guid_to_path[link.guid] # <<>>
           path    == IF known THEN guid_to_path[link.guid] ELSE content
           label   == ReplaceSeq(ReplaceSeq(content, <<BS, "[">>, <<"[">>), <<BS, "]">>, <<"]">>)
           token   == preview \o <<"[", "[">> \o path \o escape \o <<"|">> \o label
                      \o <<"]", "]">>
       IN  /\ inside_pre' = IF EntersCodeblock(Top.node) THEN FALSE ELSE inside_pre
           /\ IF link.found
              THEN /\ warnings' =
                          IF known THEN warnings
                          ELSE Append(warnings, LinkWarning(link.guid, content))
                   /\ frames' = ReturnFrames(
                          IF hasSpan
                          THEN <<"<span style=\"">> \o style \o <<"\">">> \o token
                               \o <<"</span>">>
                          ELSE token)
              ELSE /\ warnings' = warnings
                   /\ frames' = ReturnFrames(
                          IF hasSpan
                          THEN <<"[", "<span style=\"">> \o style \o <<"\">">> \o content
                               \o <<"</span>", "]", "(">> \o href \o <<")">>
                          ELSE <<"[">> \o content \o <<"]", "(">> \o href \o <<")">>)
    /\ UNCHANGED << export, use_html, soup, args, list_stack, indent_level,
                    number_indent, inside_table, pc, result, calls >>

(***************************************************************************)
(* _process_simple_tags                                                    *)
(***************************************************************************)
SimpleNames ==
    {"b", "strong", "i", "em", "u", "s", "del", "sup", "sub", "blockquote", "code"}

EnterSimple ==
    /\ AtChild
    /\ Child.name \in SimpleNames
    /\ frames' = Append(frames, Frame("simple", Child))
    /\ inside_pre' = (EntersCodeblock(Child) \/ inside_pre)
    /\ UNCHANGED << export, use_html, soup, args, list_stack, indent_level,
                    number_indent, warnings, inside_table, pc, result, calls >>

\* the first "](" at or after position from, 0 when there is none
RECURSIVE FindAnchorEnd(_, _)
FindAnchorEnd(s, from) ==
    IF from + 1 > Len(s) THEN 0
    ELSE IF s[from] = "]" /\ s[from + 1] = "(" THEN from
    ELSE FindAnchorEnd(s, from + 1)

\* re.findall(r'^\[(.*?)\]\((.*?)\)(.*)$', content, flags=re.S): the anchor
\* text, the address and the rest of a Markdown link at the start of content
AnchorParts(content) ==
    LET p == IF content # <<>> /\ content[1] = "[" THEN FindAnchorEnd(content, 2) ELSE 0
        q == IF p = 0 THEN 0 ELSE FindAtom(content, ")", p + 2)
    IN  IF q = 0 THEN [found |-> FALSE, content |-> content, url |-> <<>>, lf |-> <<>>]
        ELSE [found   |-> TRUE,
              content |-> SubSeq(content, 2, p - 1),
              url     |-> SubSeq(content, p + 2, q - 1),
              lf      |-> SubSeq(content, q + 1, Len(content))]

\* the marker pair of a bold, italic or strikethrough tag
Marker(name) ==
    IF name \in {"b", "strong"} THEN <<"*", "*">>
    ELSE IF name \in {"i", "em"} THEN <<"_">>
    ELSE <<"~", "~">>

\* f'{space_begin}**{stripped_content}**{space_end}' and its likes
Marked(name, space_begin, content, space_end) ==
    space_begin \o Marker(name) \o Strip(content) \o Marker(name) \o space_end

ExitSimple ==
    /\ AtEnd("simple")
    /\ LET name    == Top.node.name
           empty   == \A k \in 1..Len(Top.acc) : IsSpace(Top.acc[k])
           anchor  == /\ Top.node.children[1].name = "a"
                      /\ ~(Len(Top.acc) >= 2 /\ Top.acc[1] = "[" /\ Top.acc[2] = "[")
           parts   == IF anchor THEN AnchorParts(Top.acc)
                      ELSE [found |-> FALSE, content |-> Top.acc, url |-> <<>>, lf |-> <<>>]
           content == parts.content
           space_begin == IF content # <<>> /\ IsSpace(content[1]) THEN <<SP>> ELSE <<>>
           space_end   == IF content # <<>> /\ IsSpace(content[Len(content)])
                          THEN <<SP>> ELSE <<>>
           fence   == <<BACKTICK, BACKTICK, BACKTICK>>
           html    == name \in {"u", "sup", "sub"}
           text    ==
               IF name \in {"b", "strong", "i", "em", "s", "del"}
               THEN Marked(name, space_begin, content, space_end)
               ELSE IF name = "blockquote"
               THEN <<">", SP>> \o ReplaceAtom(Strip(content), NL, <<NL, ">", SP>>) \o <<NL>>
               ELSE IF name = "code"
               THEN IF \E k \in 1..Len(content) : content[k] = NL
                    THEN fence \o <<NL>> \o content \o <<NL>> \o fence \o <<NL>>
                    ELSE <<BACKTICK>> \o content \o <<BACKTICK>>
               ELSE IF use_html
               THEN <<"<", name, ">">> \o space_begin \o Strip(content) \o space_end
                    \o <<"<", "/", name, ">">>
               ELSE content
       IN  /\ inside_pre' = IF EntersCodeblock(Top.node) THEN FALSE ELSE inside_pre
           /\ warnings' = IF ~empty /\ html THEN Append(warnings, UseHtmlWarning(name))
                          ELSE warnings
           /\ frames' = ReturnFrames(
                  IF empty THEN <<>>
                  ELSE IF parts.url # <<>>
                  THEN <<"[">> \o text \o <<"]", "(">> \o parts.url \o <<")">> \o parts.lf
                  ELSE text)
    /\ UNCHANGED << export, use_html, soup, args, list_stack, indent_level,
                    number_indent, inside_table, pc, result, calls >>

(***************************************************************************)
(* _process_text_element                                                   *)
(***************************************************************************)
EnterTextElement ==
    /\ AtChild
    /\ Child.name \in {"p", "span", "font"}
    /\ frames' = Append(frames, Frame("text", Child))
    /\ inside_pre' = (EntersCodeblock(Child) \/ inside_pre)
    /\ UNCHANGED << export, use_html, soup, args, list_stack, indent_level,
                    number_indent, warnings, inside_table, pc, result, calls >>

\* node.text: the text nodes below the node, in order
RECURSIVE TextOf(_)
TextOf(node) ==
    IF node.name = "#text" THEN node.text
    ELSE LET F[k \in 0..Len(node.children)] ==
                 IF k = 0 THEN <<>> ELSE F[k - 1] \o TextOf(node.children[k])
         IN  F[Len(node.children)]

\* _process_simple_tags on a new tag of that name that holds the text alone
Restyled(name, text, pre) ==
    LET content == IF text = <<NL>> THEN <<>> ELSE escape_text(text, pre, inside_table)
    IN  IF \A k \in 1..Len(content) : IsSpace(content[k]) THEN <<>>
        ELSE Marked(name,
                    IF IsSpace(content[1]) THEN <<SP>> ELSE <<>>,
                    content,
                    IF IsSpace(content[Len(content)]) THEN <<SP>> ELSE <<>>)

HIGHLIGHT == "--en-highlight:"
COLOR_RGB == "color:rgb"
BLACK     == << COLOR_RGB, "(0, 0, 0);" >>
GREEN1    == << COLOR_RGB, "(105, 170, 53);" >>
GREEN2    == << COLOR_RGB, "(24, 168, 65);", "--inversion-type-color:simple;" >>

\* re.search(r'--en-highlight:(\w+)', style): the colour, one atom of word
\* characters after the property, or <<>>
HighlightColor(style) ==
    LET at == { p \in 1..(Len(style) - 1) :
                  style[p] = HIGHLIGHT /\ style[p + 1] \in {"yellow", "red"} }
    IN  IF at = {} THEN <<>>
        ELSE << style[(CHOOSE p \in at : \A q \in at : p <= q) + 1] >>

ExitTextElement ==
    /\ AtEnd("text")
    /\ LET node    == Top.node
           color   == GetAttr(node, "color", <<>>)
           style   == StyleOf(node)
           pre     == IF EntersCodeblock(node) THEN FALSE ELSE inside_pre
           font    == IF color # <<>> THEN << UseHtmlWarning("font color") >> ELSE <<>>
           styled  == IF InStyle("font-style: italic;", style)
                      THEN Restyled("i", TextOf(node), pre)
                      ELSE IF InStyle("line-through", style)
                      THEN Restyled("s", TextOf(node), pre)
                      ELSE IF InStyle("font-weight: bold;", style)
                      THEN Restyled("b", TextOf(node), pre)
                      ELSE Top.acc
           hl      == HighlightColor(style)
           marked  == IF hl = <<>> THEN <<>>
                      ELSE << UseHtmlWarning("highlight / background-color") >>
           lit     == IF hl = <<>> THEN styled
                      ELSE IF use_html /\ hl # << "yellow" >>
                      THEN << "<span style=\"", "color: white; background-color: " >> \o hl
                           \o << "\">" >> \o styled \o << "</span>" >>
                      ELSE << "=", "=" >> \o styled \o << "=", "=" >>
           href    == GetAttr(Caller.node, "href", <<>>)
           internal_link ==
                      /\ Caller.node.name = "a"
                      /\ href # <<>>
                      /\ \/ href[1] = EVERNOTE_VIEW
                         \/ /\ href[1] \in { WWW_EVERNOTE, SHARE_NOTE }
                            /\ Len(href) > 1
                            /\ href[2] # NL
           green   == \/ style = GREEN1
                      \/ /\ style = GREEN2
                         /\ internal_link
                         /\ Option("remove_green_link", TRUE) = TRUE
           colored == InStyle(COLOR_RGB, style) /\ style # BLACK /\ ~green
           rgb     == IF colored THEN << UseHtmlWarning("text color / color:rgb") >> ELSE <<>>
       IN  /\ inside_pre' = pre
           /\ IF color # <<>> /\ use_html
              THEN /\ warnings' = warnings \o font
                   /\ frames' = ReturnFrames(<< "<span style=\"", "color:" >> \o color
                                             \o << "\">" >> \o Top.acc \o << "</span>" >>)
              ELSE /\ warnings' = warnings \o font \o marked \o rgb
                   /\ frames' = ReturnFrames(
                          IF colored /\ use_html
                          THEN << "<span style=\"" >> \o style \o << "\">" >> \o lit
                               \o << "</span>" >>
                          ELSE lit)
    /\ UNCHANGED << export, use_html, soup, args, list_stack, indent_level,
                    number_indent, inside_table, pc, result, calls >>

(***************************************************************************)
(* _process_media.  A media element is a leaf: its children are not        *)
(* processed.                                                              *)
(***************************************************************************)
HexDigits == <<"0", "1", "2", "3", "4", "5", "6", "7", "8", "9",
               "a", "b", "c", "d", "e", "f">>
UpperHexDigits == <<"0", "1", "2", "3", "4", "5", "6", "7", "8", "9",
                    "A", "B", "C", "D", "E", "F">>

IsHexDigit(c) == \E n \in 1..16 : HexDigits[n] = c \/ UpperHexDigits[n] = c

HexDigitValue(c) == (CHOOSE n \in 1..16 : HexDigits[n] = c \/ UpperHexDigits[n] = c) - 1

\* the value of the last digit alone
HexValueOfLastDigit(hash_hex) == HexDigitValue(hash_hex[Len(hash_hex)])

\* int(hash_hex, 16) for a string of hexadecimal digits
RECURSIVE HexValue(_)
HexValue(hash_hex) ==
    IF Len(hash_hex) = 1 THEN HexDigitValue(hash_hex[1])
    ELSE 16 * HexValue(SubSeq(hash_hex, 1, Len(hash_hex) - 1))
         + HexDigitValue(hash_hex[Len(hash_hex)])

\* os.path.split(file_path)[-1]
FileName(file_path) ==
    LET slashes == { k \in 1..Len(file_path) : file_path[k] = "/" }
    IN  IF slashes = {} THEN file_path
        ELSE SubSeq(file_path,
                    (CHOOSE k \in slashes : \A l \in slashes : l <= k) + 1, Len(file_path))

\* width.strip("px")
RECURSIVE StripPx(_)
StripPx(w) ==
    IF w = <<>> THEN w
    ELSE IF w[1] \in {"p", "x"} THEN StripPx(Tail(w))
    ELSE IF w[Len(w)] \in {"p", "x"} THEN StripPx(SubSeq(w, 1, Len(w) - 1))
    ELSE w

\* float(w) succeeds, for a w of digits and periods
IsFloat(w) ==
    /\ \A k \in 1..Len(w) : IsDigit(w[k]) \/ w[k] = "."
    /\ \E k \in 1..Len(w) : IsDigit(w[k])
    /\ Cardinality({ k \in 1..Len(w) : w[k] = "." }) <= 1

\* str(int(float(w)))
IntOfFloat(w) ==
    LET dot == FindAtom(w, ".", 1)
    IN  ToDec(FromDigits(IF dot = 0 THEN w ELSE SubSeq(w, 1, dot - 1)))

MEDIA_WARNING == "Path to media hash not found: "
ATTACHMENT    == "--en-viewAs:attachment"
ALIGN_CENTER  == "--en-imageAlignment:center"
ALIGN_RIGHT   == "--en-imageAlignment:right"
ALIGN_FULL    == "--en-imageAlignment:fullWidth"
IMG_CENTER    == "<div style=\"text-align: center;\"><img src=\""
IMG_RIGHT     == "<div style=\"text-align: right;\"><img src=\""
IMG_WIDTH     == "\" width=\""
IMG_END       == "\"></div>"
IMG_FULL      == "<img src=\""
IMG_FULL_END  == "\" style=\"width: 100%;\">"

\* the image of a media element: the alignments tried in turn, each test of
\* _use_html adding its warning
MediaImage(node, file_path, token, preview) ==
    LET style   == StyleOf(node)
        width   == GetAttr(node, "width", <<>>)
        center  == InStyle(ALIGN_CENTER, style)
        right   == ~(center /\ use_html) /\ InStyle(ALIGN_RIGHT, style)
        full    == ~(center /\ use_html) /\ ~(right /\ use_html) /\ InStyle(ALIGN_FULL, style)
        tested  == (IF center THEN << UseHtmlWarning("image alignment (center)") >> ELSE <<>>)
                   \o (IF right THEN << UseHtmlWarning("image alignment (right)") >> ELSE <<>>)
                   \o (IF full THEN << UseHtmlWarning("image alignment (right)") >> ELSE <<>>)
        sized   == IF width # <<>> THEN << IMG_WIDTH >> \o width ELSE <<>>
        nl      == IF /\ Top.i < Len(Top.node.children)
                      /\ Top.node.children[Top.i + 1].name \in block_level_elements
                   THEN <<NL>> ELSE <<SP>>
    IN  IF use_html /\ center
        THEN [ok |-> TRUE, warned |-> tested,
              text |-> << IMG_CENTER >> \o file_path \o sized \o << IMG_END, NL >>]
        ELSE IF use_html /\ right
        THEN [ok |-> TRUE, warned |-> tested,
              text |-> << IMG_RIGHT >> \o file_path \o sized \o << IMG_END, NL >>]
        ELSE IF use_html /\ full
        THEN [ok |-> TRUE, warned |-> tested,
              text |-> << IMG_FULL >> \o file_path \o << IMG_FULL_END, NL >>]
        ELSE IF width = <<>>
        THEN [ok |-> TRUE, warned |-> tested, text |-> preview \o token \o nl]
        ELSE IF IsFloat(StripPx(width))
        THEN [ok |-> TRUE, warned |-> tested,
              text |-> preview \o <<"[", "[">> \o file_path \o <<BS, "|">>
                       \o IntOfFloat(StripPx(width)) \o <<"]", "]">> \o nl]
        ELSE [ok |-> FALSE, warned |-> tested, text |-> <<>>]

ProcessMedia ==
    /\ AtChild
    /\ Child.name = "en-media"
    /\ LET type_    == GetAttr(Child, "type", <<>>)
           style    == StyleOf(Child)
           hash_hex == GetAttr(Child, "hash", <<>>)
           good     == hash_hex # <<>> /\ \A k \in 1..Len(hash_hex) : IsHexDigit(hash_hex[k])
           hash_int == HexValue(hash_hex)
           found    == hash_int \in DOMAIN hash_to_path /\ hash_to_path[hash_int] # <<>>
           file_path == IF found THEN hash_to_path[hash_int] ELSE hash_hex
           missing  == IF found THEN <<>> ELSE << << MEDIA_WARNING >> \o hash_hex >>
           escape   == IF inside_table THEN <<BS>> ELSE <<>>
           preview  == IF InStyle(ATTACHMENT, style) THEN <<>> ELSE <<"!">>
           res      == <<"[", "[">> \o file_path \o escape \o <<"|">> \o FileName(file_path)
                       \o <<"]", "]">>
           autopx   == style = <<>> /\ InStyle("autopx", GetAttr(Child, "height", <<>>))
           pdf_view == Option("pdf_view", "default")
           pdf_preview == IF pdf_view = "title" THEN <<>>
                          ELSE IF pdf_view = "preview" THEN <<"!">>
                          ELSE IF autopx THEN <<>> ELSE preview
           image    == MediaImage(Child, file_path, res, preview)
       IN  IF "hash" \notin DOMAIN Child.attrs
           THEN Raise("TypeError") /\ UNCHANGED << frames, warnings >>
           ELSE IF ~good
           THEN Raise("ValueError") /\ UNCHANGED << frames, warnings >>
           ELSE IF type_ # <<>> /\ type_[1] \in {"audio/", "video/"}
           THEN /\ frames' = AdvanceFrames(<<"!">> \o res \o <<NL>>)
                /\ warnings' = warnings \o missing
                /\ UNCHANGED << pc, result, calls >>
           ELSE IF type_ = << "application/pdf" >>
           THEN /\ frames' = AdvanceFrames(pdf_preview \o res \o <<NL>>)
                /\ warnings' = warnings \o missing
                /\ UNCHANGED << pc, result, calls >>
           ELSE IF type_ # <<>> /\ type_[1] = "image/"
           THEN /\ warnings' = warnings \o missing \o image.warned
                /\ IF image.ok
                   THEN frames' = AdvanceFrames(image.text) /\ UNCHANGED << pc, result, calls >>
                   ELSE Raise("ValueError") /\ UNCHANGED frames
           ELSE /\ frames' = AdvanceFrames(res)
                /\ warnings' = warnings \o missing
                /\ UNCHANGED << pc, result, calls >>
    /\ UNCHANGED << export, use_html, soup, args, list_stack, indent_level, number_indent,
                    inside_pre, inside_table >>

(***************************************************************************)
(* _process_table.  The frame of a table keeps the locals of the method:   *)
(* rows, max_cols, grid, row_spans, row_num (from 1), the index k of the   *)
(* next cell of the row, and col_num (from 0).  The content of a cell is   *)
(* computed by a frame of kind "cell" above the frame of the table.        *)
(***************************************************************************)
LEFT   == <<"-", "-", "-">>
CENTER == <<":", "-", ":">>
RIGHT  == <<"-", "-", ":">>

\* node.find_all(names): the descendants with one of the names, in document
\* order
RECURSIVE FindAllFrom(_, _, _)
FindAllFrom(children, k, names) ==
    IF k > Len(children) THEN <<>>
    ELSE (IF children[k].name \in names THEN << children[k] >> ELSE <<>>)
         \o FindAllFrom(children[k].children, 1, names)
         \o FindAllFrom(children, k + 1, names)

find_all(node, names) == FindAllFrom(node.children, 1, names)

\* int(v) succeeds on a string of digits
IsNumeric(v) == v # <<>> /\ \A k \in 1..Len(v) : IsDigit(v[k])

\* the colspan and the rowspan of a cell, as strings
ColSpanOf(cell) == GetAttr(cell, "colspan", <<"1">>)
RowSpanOf(cell) == GetAttr(cell, "rowspan", <<"1">>)

RECURSIVE SumColSpans(_)
SumColSpans(cols) ==
    IF cols = <<>> THEN 0
    ELSE FromDigits(ColSpanOf(Head(cols))) + SumColSpans(Tail(cols))

\* Step 1 with the columns of the first row only
MaxColsFirstRow(rows) ==
    IF rows = <<>> THEN 0 ELSE SumColSpans(find_all(rows[1], {"th", "td"}))

\* Step 1: the maximum number of columns of a row
MaxCols(rows) ==
    LET sums == { SumColSpans(find_all(rows[r], {"th", "td"})) : r \in 1..Len(rows) }
    IN  IF sums = {} THEN 0 ELSE CHOOSE m \in sums : \A n \in sums : n <= m

EmptyCell == [align |-> LEFT, content |-> <<>>]

EnterTable ==
    /\ AtChild
    /\ Child.name = "table"
    /\ inside_table' = TRUE
    /\ LET rows == find_all(Child, {"tr"})
           max_cols == MaxCols(rows)
           cols(r) == find_all(rows[r], {"th", "td"})
       IN  IF \E r \in 1..Len(rows) : \E c \in 1..Len(cols(r)) :
                 ~IsNumeric(ColSpanOf(cols(r)[c]))
           THEN /\ Raise("ValueError")
                /\ UNCHANGED frames
           ELSE /\ frames' = Append(frames,
                       [Frame("table", Child) EXCEPT
                           !.t = [rows      |-> rows,
                                  max_cols  |-> max_cols,
                                  grid      |-> [r \in 1..Len(rows) |->
                                                   [c \in 1..max_cols |-> EmptyCell]],
                                  row_spans |-> [c \in 1..max_cols |-> 0],
                                  row_num   |-> 1,
                                  k         |-> 1,
                                  col_num   |-> 0]])
                /\ UNCHANGED << pc, result, calls >>
    /\ UNCHANGED << export, use_html, soup, args, list_stack, indent_level,
                    number_indent, warnings, inside_pre >>

\* the table on top of the stack is in its row row_num
InRow ==
    /\ pc = "running"
    /\ Top.kind = "table"
    /\ Top.t.row_num <= Len(Top.t.rows)

RowCells == find_all(Top.t.rows[Top.t.row_num], {"th", "td"})

\* "while row_spans[col_num] > 0": the columns past the active rowspans;
\* ok is FALSE when col_num is no key of row_spans
RECURSIVE SkipSpans(_, _)
SkipSpans(row_spans, col_num) ==
    IF col_num + 1 > Len(row_spans)
    THEN [ok |-> FALSE, row_spans |-> row_spans, col_num |-> col_num]
    ELSE IF row_spans[col_num + 1] > 0
    THEN SkipSpans([row_spans EXCEPT ![col_num + 1] = @ - 1], col_num + 1)
    ELSE [ok |-> TRUE, row_spans |-> row_spans, col_num |-> col_num]

EnterCell ==
    /\ InRow
    /\ Top.t.k <= Len(RowCells)
    /\ LET skip == SkipSpans(Top.t.row_spans, Top.t.col_num)
           cell == RowCells[Top.t.k]
       IN  IF skip.ok
           THEN /\ frames' = Append(
                       [frames EXCEPT ![Len(frames)].t.row_spans = skip.row_spans,
                                      ![Len(frames)].t.col_num = skip.col_num],
                       Frame("cell", cell))
                /\ inside_pre' = (EntersCodeblock(cell) \/ inside_pre)
                /\ UNCHANGED << pc, result, calls >>
           ELSE /\ Raise("KeyError")
                /\ UNCHANGED << frames, inside_pre >>
    /\ UNCHANGED << export, use_html, soup, args, list_stack, indent_level,
                    number_indent, warnings, inside_table >>

\* s.rstrip("\n")
RECURSIVE RStripNL(_)
RStripNL(s) ==
    IF s # <<>> /\ s[Len(s)] = NL THEN RStripNL(SubSeq(s, 1, Len(s) - 1)) ELSE s

\* add_to_grid: the cell of the grid with the content and the alignment of
\* the first child of the HTML cell
AddToGrid(old, cell_content, html_node) ==
    LET style == IF html_node.children # <<>> /\ html_node.children[1].name # "#text"
                 THEN StyleOf(html_node.children[1]) ELSE <<>>
    IN  [align   |-> IF InStyle("text-align:center", style) THEN CENTER
                     ELSE IF InStyle("text-align:right", style) THEN RIGHT
                     ELSE old.align,
         content |-> ReplaceAtom(cell_content, NL, <<"<br>">>)]

\* "for x in range(col_span)": the rowspans of the columns of the cell; ok is
\* FALSE when a rowspan is added to a column that is no key of row_spans
RECURSIVE Span(_, _, _, _)
Span(row_spans, col_num, col_span, row_span) ==
    IF col_span <= 0
    THEN [ok |-> TRUE, row_spans |-> row_spans, col_num |-> col_num]
    ELSE IF row_span > 1
    THEN IF col_num + 1 > Len(row_spans)
         THEN [ok |-> FALSE, row_spans |-> row_spans, col_num |-> col_num]
         ELSE Span([row_spans EXCEPT ![col_num + 1] = @ + row_span - 1],
                   col_num + 1, col_span - 1, row_span)
    ELSE Span(row_spans, col_num + 1, col_span - 1, row_span)

ExitCell ==
    /\ AtEnd("cell")
    /\ inside_pre' = IF EntersCodeblock(Top.node) THEN FALSE ELSE inside_pre
    /\ LET tf      == Caller
           content == RStripNL(Top.acc)
           grid    == [tf.t.grid EXCEPT ![tf.t.row_num][tf.t.col_num + 1] =
                          AddToGrid(@, content, Top.node)]
           numeric == IsNumeric(ColSpanOf(Top.node)) /\ IsNumeric(RowSpanOf(Top.node))
           span    == Span(tf.t.row_spans, tf.t.col_num,
                           FromDigits(ColSpanOf(Top.node)),
                           FromDigits(RowSpanOf(Top.node)))
       IN  IF ~numeric
           THEN /\ Raise("ValueError")
                /\ UNCHANGED frames
           ELSE IF ~span.ok
           THEN /\ Raise("KeyError")
                /\ UNCHANGED frames
           ELSE /\ frames' = [SubSeq(frames, 1, Len(frames) - 1) EXCEPT
                                 ![Len(frames) - 1].t.grid = grid,
                                 ![Len(frames) - 1].t.row_spans = span.row_spans,
                                 ![Len(frames) - 1].t.col_num = span.col_num,
                                 ![Len(frames) - 1].t.k = @ + 1]
                /\ UNCHANGED << pc, result, calls >>
    /\ UNCHANGED << export, use_html, soup, args, list_stack, indent_level,
                    number_indent, warnings, inside_table >>

\* the end of a row: "for x in range(col_num, max_cols): row_spans[x] -= 1"
\* when the row has cells
EndRow ==
    /\ InRow
    /\ Top.t.k > Len(RowCells)
    /\ frames' = [frames EXCEPT
           ![Len(frames)].t.row_spans =
               IF RowCells = <<>> THEN @
               ELSE [c \in 1..Len(@) |-> IF c > Top.t.col_num THEN @[c] - 1 ELSE @[c]],
           ![Len(frames)].t.row_num = @ + 1,
           ![Len(frames)].t.k = 1,
           ![Len(frames)].t.col_num = 0]
    /\ UNCHANGED << export, use_html, soup, args, state, pc, result, calls >>

\* the most common value, and of several the first of left, center, right
ModeInFixedOrder(xs) ==
    LET cnt(v) == Cardinality({ i \in 1..Len(xs) : xs[i] = v })
        best(v) == \A j \in 1..Len(xs) : cnt(xs[j]) <= cnt(v)
    IN  IF cnt(LEFT) > 0 /\ best(LEFT) THEN LEFT
        ELSE IF cnt(CENTER) > 0 /\ best(CENTER) THEN CENTER
        ELSE RIGHT

\* statistics.mode: the most common value, the first met of the most common
Mode(xs) ==
    LET cnt(v) == Cardinality({ i \in 1..Len(xs) : xs[i] = v })
        best(i) == \A j \in 1..Len(xs) : cnt(xs[j]) <= cnt(xs[i])
    IN  xs[CHOOSE i \in 1..Len(xs) : best(i) /\ \A j \in 1..(i - 1) : ~best(j)]

\* Steps 4 and 5: a line for every row of the grid, and the separators as
\* the second line
TableLine(cells) == <<"|", SP>> \o Join(<<SP, "|", SP>>, cells) \o <<SP, "|">>

TableLines(grid, max_cols) ==
    LET rows == [r \in 1..Len(grid) |->
                    TableLine([c \in 1..max_cols |-> grid[r][c].content])]
        separators == TableLine([c \in 1..max_cols |->
                          Mode([r \in 1..Len(grid) |-> grid[r][c].align])])
    IN  IF rows = <<>> THEN <<>>
        ELSE << rows[1], separators >> \o Tail(rows)

ExitTable ==
    /\ pc = "running"
    /\ Top.kind = "table"
    /\ Top.t.row_num > Len(Top.t.rows)
    /\ inside_table' = FALSE
    /\ frames' = ReturnFrames(
           <<NL>> \o Join(<<NL>>, TableLines(Top.t.grid, Top.t.max_cols)) \o <<NL>>)
    /\ UNCHANGED << export, use_html, soup, args, list_stack, indent_level,
                    number_indent, warnings, inside_pre, pc, result, calls >>

(***************************************************************************)
(* convert_html_to_markdown, after _process_node(self.soup) has returned:  *)
(* the properties block and the warnings, counted and sorted               *)
(***************************************************************************)
\* the spelling of the atoms that are longer than one character
Spelling(a) ==
    CASE a = "http://" ->
             << "h", "t", "t", "p", ":", "/", "/" >>
      [] a = "https://" ->
             << "h", "t", "t", "p", "s", ":", "/", "/" >>
      [] a = "ftp://" ->
             << "f", "t", "p", ":", "/", "/" >>
      [] a = "Added unsupported HTML: " ->
             << "A", "d", "d", "e", "d", " ", "u", "n", "s", "u", "p", "p",
                "o", "r", "t", "e", "d", " ", "H", "T", "M", "L", ":", " " >>
      [] a = "Removed unsupported HTML: " ->
             << "R", "e", "m", "o", "v", "e", "d", " ", "u", "n", "s", "u",
                "p", "p", "o", "r", "t", "e", "d", " ", "H", "T", "M", "L",
                ":", " " >>
      [] a = "text-align:center / <center>" ->
             << "t", "e", "x", "t", "-", "a", "l", "i", "g", "n", ":", "c",
                "e", "n", "t", "e", "r", " ", "/", " ", "<", "c", "e", "n",
                "t", "e", "r", ">" >>
      [] a = "text-align:right / <span>" ->
             << "t", "e", "x", "t", "-", "a", "l", "i", "g", "n", ":", "r",
                "i", "g", "h", "t", " ", "/", " ", "<", "s", "p", "a", "n",
                ">" >>
      [] a = "Ignored Table of Contents (conversion not implemented)" ->
             << "I", "g", "n", "o", "r", "e", "d", " ", "T", "a", "b", "l",
                "e", " ", "o", "f", " ", "C", "o", "n", "t", "e", "n", "t",
                "s", " ", "(", "c", "o", "n", "v", "e", "r", "s", "i", "o",
                "n", " ", "n", "o", "t", " ", "i", "m", "p", "l", "e", "m",
                "e", "n", "t", "e", "d", ")" >>
      [] a = "Path to link GUID not found: " ->
             << "P", "a", "t", "h", " ", "t", "o", " ", "l", "i", "n", "k",
                " ", "G", "U", "I", "D", " ", "n", "o", "t", " ", "f", "o",
                "u", "n", "d", ":", " " >>
      [] a = "Path to media hash not found: " ->
             << "P", "a", "t", "h", " ", "t", "o", " ", "m", "e", "d", "i",
                "a", " ", "h", "a", "s", "h", " ", "n", "o", "t", " ", "f",
                "o", "u", "n", "d", ":", " " >>
      [] a = "font color" ->
             << "f", "o", "n", "t", " ", "c", "o", "l", "o", "r" >>
      [] a = "highlight / background-color" ->
             << "h", "i", "g", "h", "l", "i", "g", "h", "t", " ", "/", " ",
                "b", "a", "c", "k", "g", "r", "o", "u", "n", "d", "-", "c",
                "o", "l", "o", "r" >>
      [] a = "text color / color:rgb" ->
             << "t", "e", "x", "t", " ", "c", "o", "l", "o", "r", " ", "/",
                " ", "c", "o", "l", "o", "r", ":", "r", "g", "b" >>
      [] a = "image alignment (center)" ->
             << "i", "m", "a", "g", "e", " ", "a", "l", "i", "g", "n", "m",
                "e", "n", "t", " ", "(", "c", "e", "n", "t", "e", "r", ")" >>
      [] a = "image alignment (right)" ->
             << "i", "m", "a", "g", "e", " ", "a", "l", "i", "g", "n", "m",
                "e", "n", "t", " ", "(", "r", "i", "g", "h", "t", ")" >>
      [] a = "Added base64 image" ->
             << "A", "d", "d", "e", "d", " ", "b", "a", "s", "e", "6", "4",
                " ", "i", "m", "a", "g", "e" >>
      [] a = "evernote:///view/" ->
             << "e", "v", "e", "r", "n", "o", "t", "e", ":", "/", "/", "/",
                "v", "i", "e", "w", "/" >>
      [] a = "https://www.evernote.com/" ->
             << "h", "t", "t", "p", "s", ":", "/", "/", "w", "w", "w", ".",
                "e", "v", "e", "r", "n", "o", "t", "e", ".", "c", "o", "m",
                "/" >>
      [] a = "https://share.evernote.com/note/" ->
             << "h", "t", "t", "p", "s", ":", "/", "/", "s", "h", "a", "r",
                "e", ".", "e", "v", "e", "r", "n", "o", "t", "e", ".", "c",
                "o", "m", "/", "n", "o", "t", "e", "/" >>
      [] a = "https://example.com/" ->
             << "h", "t", "t", "p", "s", ":", "/", "/", "e", "x", "a", "m",
                "p", "l", "e", ".", "c", "o", "m", "/" >>
      [] a = "sup" ->
             << "s", "u", "p" >>
      [] a = "sub" ->
             << "s", "u", "b" >>
      [] OTHER -> << a >>

RECURSIVE Spell(_)
Spell(s) == IF s = <<>> THEN <<>> ELSE Spelling(Head(s)) \o Spell(Tail(s))

\* the printable ASCII characters in code order, from the space (32)
Ascii ==
    << " ", "!", "\"", "#", "$", "%", "&", "'", "(", ")", "*", "+", ",", "-",
       ".", "/", "0", "1", "2", "3", "4", "5", "6", "7", "8", "9", ":", ";",
       "<", "=", ">", "?", "@", "A", "B", "C", "D", "E", "F", "G", "H", "I",
       "J", "K", "L", "M", "N", "O", "P", "Q", "R", "S", "T", "U", "V", "W",
       "X", "Y", "Z", "[", "\\", "]", "^", "_", BACKTICK, "a", "b", "c", "d",
       "e", "f", "g", "h", "i", "j", "k", "l", "m", "n", "o", "p", "q", "r",
       "s", "t", "u", "v", "w", "x", "y", "z", "{", "|", "}", "~" >>

\* ord(c)
Ord(c) == IF c = NL THEN 10
          ELSE IF c = "\t" THEN 9
          ELSE 31 + (CHOOSE k \in 1..Len(Ascii) : Ascii[k] = c)

\* a < b for two Python strings, spelled out
RECURSIVE CharsLess(_, _)
CharsLess(a, b) ==
    IF b = <<>> THEN FALSE
    ELSE IF a = <<>> THEN TRUE
    ELSE IF Head(a) = Head(b) THEN CharsLess(Tail(a), Tail(b))
    ELSE Ord(Head(a)) < Ord(Head(b))

\* the comparison of the strings by their length
StrShorter(a, b) == Len(Spell(a)) < Len(Spell(b))

StrLess(a, b) == CharsLess(Spell(a), Spell(b))

\* Counter(ws)[m]
Count(ws, m) == Cardinality({k \in 1..Len(ws) : ws[k] = m})

\* sorted(counter.items(), key=(-count, message)), each item formatted
RECURSIVE SortedWarnings(_, _)
SortedWarnings(ws, M) ==
    IF M = {} THEN <<>>
    ELSE LET m == CHOOSE m \in M : \A o \in M \ {m} :
                      \/ Count(ws, m) > Count(ws, o)
                      \/ Count(ws, m) = Count(ws, o) /\ StrLess(m, o)
         IN  << IF Count(ws, m) > 1
                THEN m \o <<SP, "[">> \o ToDec(Count(ws, m)) \o <<"x", "]">>
                ELSE m >>
             \o SortedWarnings(ws, M \ {m})

ShortWarnings(ws) == SortedWarnings(ws, {ws[k] : k \in 1..Len(ws)})

\* '\n'.join(["---"] + md_properties + ["---\n"]) + markdown
WithProperties(props, markdown) ==
    IF props = <<>> THEN markdown
    ELSE Join(<<NL>>, << <<"-", "-", "-">> >> \o props \o << <<"-", "-", "-", NL>> >>)
         \o markdown

Finish ==
    /\ AtEnd("root")
    /\ LET r == [markdown  |-> WithProperties(md_properties, Top.acc),
                 warnings  |-> ShortWarnings(warnings),
                 exception |-> "none"]
       IN  /\ result' = r
           /\ calls' = Append(calls, [soup |-> soup, args |-> args, result |-> r])
    /\ pc' = "returned"
    /\ frames' = <<>>
    /\ UNCHANGED << export, use_html, soup, args, state >>

(***************************************************************************)
(* The Text Escaper on its own: _escape_text(node) on every text run of at *)
(* most MaxTextLen atoms, outside and inside a table                       *)
(***************************************************************************)
MaxTextLen == 3

TextAtoms == {"a", " ", "\n", "1", ".", "_", "*", "#", "=", "<", ">", "|", "%", "-",
              "http://"}

RECURSIVE TextsOfLen(_)
TextsOfLen(n) ==
    IF n = 0 THEN { <<>> }
    ELSE { <<c>> \o t : c \in TextAtoms, t \in TextsOfLen(n - 1) }

Texts == UNION { TextsOfLen(n) : n \in 0..MaxTextLen }

InitEscape ==
    /\ use_html = TRUE
    /\ soup \in { Txt(t) : t \in Texts }
    /\ md_properties = <<>>
    /\ tasks = <<>>
    /\ guid_to_path = <<>>
    /\ hash_to_path = <<>>
    /\ options = <<>>
    /\ list_stack = <<>>
    /\ indent_level = 0
    /\ number_indent = <<>>
    /\ warnings = <<>>
    /\ inside_pre = FALSE
    /\ inside_table \in BOOLEAN
    /\ frames = <<>>
    /\ pc = "idle"
    /\ result = NoResult
    /\ calls = <<>>
    /\ export = NotExporting

EscapeText ==
    /\ pc = "idle"
    /\ result' = [NoResult EXCEPT
                     !.markdown = escape_text(soup.text, inside_pre, inside_table)]
    /\ pc' = "returned"
    /\ UNCHANGED << export, use_html, soup, args, state, frames, calls >>

SpecEscape == InitEscape /\ [][EscapeText]_vars

(***************************************************************************)
(* The converter on one link.  The href is a prefix and at most MaxSegments *)
(* segments joined by slashes, with or without a slash at the end; a        *)
(* prefix is the start of one of the three internal shapes or of an         *)
(* external address.                                                        *)
(***************************************************************************)
MaxSegments == 5

HrefPrefixes == {EVERNOTE_VIEW, WWW_EVERNOTE, SHARE_NOTE, "https://example.com/"}

\* a name of hexadecimal digits and one that is not
Segments == { <<"a">>, <<"G">> }

RECURSIVE SegmentLists(_)
SegmentLists(n) ==
    IF n = 0 THEN { <<>> }
    ELSE { <<g>> \o l : g \in Segments, l \in SegmentLists(n - 1) }

\* the href ends after a segment, after a slash, or after a slash and a space
HrefEnds == { <<>>, <<"/">>, <<"/", SP>> }

Hrefs ==
    UNION { { <<pre>> \o Join(<<"/">>, l) \o e :
                pre \in HrefPrefixes, l \in SegmentLists(n), e \in HrefEnds }
            : n \in 0..MaxSegments }

NotePath == <<"F", "/", "N", ".", "m", "d">>

\* no identifier known; the identifiers a and G known; a known with an empty path
GuidMaps ==
    { <<>>,
      (<<"a">> :> NotePath) @@ (<<"G">> :> NotePath),
      (<<"a">> :> <<>>) }

LinkOptions == { <<>>, [escape_brackets |-> TRUE] }

LinkText == <<"[", "N">>

LinkDocs ==
    { El("[document]", NoAttrs, << El("a", [href |-> h], << Txt(LinkText) >>) >>) :
        h \in Hrefs }

ConvertLink ==
    /\ calls = <<>>
    /\ pc = "idle"
    /\ use_html
    /\ \E doc \in LinkDocs, g2p \in GuidMaps, opts \in LinkOptions :
           Convert(doc, <<>>, <<>>, g2p, <<>>, opts)

NextLink ==
    \/ ConvertLink
    \/ ProcessText
    \/ EnterLink
    \/ ExitLink
    \/ Finish

SpecLink == Init /\ [][NextLink]_vars

(***************************************************************************)
(* The converter on one table of at most MaxTableNodes rows and cells.  A   *)
(* cell holds a letter or a pipe, spans two rows, or declares a colspan     *)
(* that is no number.                                                       *)
(***************************************************************************)
MaxTableNodes == 5

CellKinds ==
    { El("td", NoAttrs, << Txt(<<"a">>) >>),
      El("td", NoAttrs, << Txt(<<"|">>) >>),
      El("td", [rowspan |-> <<"2">>], << Txt(<<"a">>) >>),
      El("td", [colspan |-> <<"x">>], << Txt(<<"a">>) >>) }

RECURSIVE CellLists(_)
CellLists(n) ==
    IF n = 0 THEN { <<>> }
    ELSE { <<c>> \o l : c \in CellKinds, l \in CellLists(n - 1) }

RECURSIVE TableRows(_)
TableRows(n) ==
    { <<>> } \cup
    UNION { { << El("tr", NoAttrs, cells) >> \o rest :
                cells \in CellLists(c), rest \in TableRows(n - 1 - c) }
            : c \in 0..(n - 1) }

TableDocs ==
    { El("[document]", NoAttrs, << El("table", NoAttrs, rows) >>) :
        rows \in TableRows(MaxTableNodes) }

ConvertTable ==
    /\ calls = <<>>
    /\ pc = "idle"
    /\ use_html
    /\ \E doc \in TableDocs : Convert(doc, <<>>, <<>>, <<>>, <<>>, <<>>)

NextTable ==
    \/ ConvertTable
    \/ ProcessText
    \/ EnterTable
    \/ EnterCell
    \/ ExitCell
    \/ EndRow
    \/ ExitTable
    \/ Finish

SpecTable == Init /\ [][NextTable]_vars

(***************************************************************************)
(* One instance of the converter, called MaxCalls times at most, as        *)
(* Exporter_MD does with its self.converter for one note after the other.  *)
(***************************************************************************)
MaxCalls == 3

\* a task group without an --en-id
BrokenTaskGroup == El("div", [style |-> << TASKGROUP, ";" >>], <<>>)

CallDocs ==
    { \* a centred block of text with a pipe and an asterisk
      El("[document]", NoAttrs,
         << El("div", [style |-> << "text-align:center", ";" >>],
               << Txt(<<"a", "|", "*">>) >>) >>),
      \* a task group without an --en-id
      El("[document]", NoAttrs, << BrokenTaskGroup >>),
      \* the same inside a list item
      El("[document]", NoAttrs,
         << El("ul", NoAttrs, << El("li", NoAttrs, << BrokenTaskGroup >>) >>) >>),
      \* the same inside a code block
      El("[document]", NoAttrs,
         << El("div", [style |-> << CODEBLOCK, ";" >>], << BrokenTaskGroup >>) >>),
      \* a table whose first cell spans two rows
      El("[document]", NoAttrs,
         << El("table", NoAttrs,
               << El("tr", NoAttrs,
                     << El("td", [rowspan |-> <<"2">>], << Txt(<<"a">>) >>) >>),
                  El("tr", NoAttrs,
                     << El("td", NoAttrs, << Txt(<<"a">>) >>) >>) >>) >>),
      \* a table of one cell
      El("[document]", NoAttrs,
         << El("table", NoAttrs,
               << El("tr", NoAttrs,
                     << El("td", NoAttrs, << Txt(<<"a", "|">>) >>) >>) >>) >>),
      \* a numbered list of one item
      El("[document]", NoAttrs,
         << El("ol", NoAttrs, << El("li", NoAttrs, << Txt(<<"a">>) >>) >>) >>),
      \* a link to a note, in an element without a rule
      El("[document]", NoAttrs,
         << El("section", NoAttrs,
               << El("a", [href |-> << EVERNOTE_VIEW, "a", "/", "a", "/", "a", "/", "a", "/" >>],
                     << Txt(<<"N">>) >>) >>) >>) }

\* the link of CallDocs
IsLinkDoc(doc) == doc.children[1].name = "section"

\* every document without a path for a note, the link also with one
ConvertCall ==
    /\ Len(calls) < MaxCalls
    /\ \E doc \in CallDocs, g2p \in { <<>>, (<<"a">> :> NotePath) } :
           /\ g2p # <<>> => IsLinkDoc(doc)
           /\ Convert(doc, <<>>, <<>>, g2p, <<>>, <<>>)

Next ==
    \/ ConvertCall
    \/ ProcessText
    \/ EnterOther
    \/ ExitOther
    \/ EnterDiv
    \/ ExitDiv
    \/ EnterList
    \/ ExitList
    \/ EnterListItem
    \/ ExitListItem
    \/ EnterTable
    \/ EnterCell
    \/ ExitCell
    \/ EndRow
    \/ ExitTable
    \/ EnterLink
    \/ ExitLink
    \/ Finish

Spec == Init /\ [][Next]_vars

(***************************************************************************)
(* The converter on at most MaxWarnNodes elements that each add a warning: *)
(* a centred block, a table of contents, and links to two notes that have  *)
(* no path.                                                                *)
(***************************************************************************)
MaxWarnNodes == 4

LinkTo(id) ==
    El("a", [href |-> << EVERNOTE_VIEW, "u", "/", "s", "/" >> \o id \o <<"/">> \o id \o <<"/">>],
       << Txt(<<"N">>) >>)

WarnKinds ==
    { El("div", [style |-> << "text-align:center", ";" >>], << Txt(<<"a">>) >>),
      El("div", [style |-> << TOC, ";" >>], <<>>),
      LinkTo(<<"a">>),
      LinkTo(<<"b">>) }

RECURSIVE WarnLists(_)
WarnLists(n) ==
    IF n = 0 THEN { <<>> }
    ELSE { <<c>> \o l : c \in WarnKinds, l \in WarnLists(n - 1) }

WarnDocs ==
    UNION { { El("[document]", NoAttrs, l) : l \in WarnLists(n) } : n \in 0..MaxWarnNodes }

ConvertWarn ==
    /\ calls = <<>>
    /\ pc = "idle"
    /\ \E doc \in WarnDocs : Convert(doc, <<>>, <<>>, <<>>, <<>>, <<>>)

NextWarn ==
    \/ ConvertWarn
    \/ ProcessText
    \/ EnterDiv
    \/ ExitDiv
    \/ EnterLink
    \/ ExitLink
    \/ Finish

SpecWarn == Init /\ [][NextWarn]_vars

(***************************************************************************)
(* The converter on one simple tag with at most MaxSimpleNodes children: a *)
(* letter, a space, a line break, an external link, an italic tag.         *)
(***************************************************************************)
MaxSimpleNodes == 3

EXAMPLE == "https://example.com/"

SimpleKids ==
    { Txt(<<"a">>),
      Txt(<<SP>>),
      El("br", NoAttrs, <<>>),
      El("a", [href |-> <<EXAMPLE>>], << Txt(<<"N">>) >>),
      El("i", NoAttrs, << Txt(<<"b", SP>>) >>) }

RECURSIVE SimpleLists(_)
SimpleLists(n) ==
    IF n = 0 THEN { <<>> }
    ELSE { <<c>> \o l : c \in SimpleKids, l \in SimpleLists(n - 1) }

SimpleDocs ==
    UNION { { El("[document]", NoAttrs, << El(name, NoAttrs, l) >>) :
                  name \in SimpleNames, l \in SimpleLists(n) } : n \in 0..MaxSimpleNodes }

ConvertSimple ==
    /\ calls = <<>>
    /\ pc = "idle"
    /\ \E doc \in SimpleDocs : Convert(doc, <<>>, <<>>, <<>>, <<>>, <<>>)

NextSimple ==
    \/ ConvertSimple
    \/ ProcessText
    \/ ProcessBreak
    \/ EnterSimple
    \/ ExitSimple
    \/ EnterLink
    \/ ExitLink
    \/ Finish

SpecSimple == Init /\ [][NextSimple]_vars

(***************************************************************************)
(* One instance called twice: on at most MaxOtherNodes elements, and then  *)
(* on the same elements inside an element that has no rule.                *)
(***************************************************************************)
MaxOtherNodes == 3

OtherKids ==
    { Txt(<<"*">>),
      El("b", NoAttrs, << Txt(<<"a">>) >>),
      El("div", [style |-> << "text-align:center", ";" >>], << Txt(<<"a">>) >>),
      El("ul", NoAttrs, << El("li", NoAttrs, << Txt(<<"a">>) >>) >>) }

RECURSIVE OtherLists(_)
OtherLists(n) ==
    IF n = 0 THEN { <<>> }
    ELSE { <<c>> \o l : c \in OtherKids, l \in OtherLists(n - 1) }

OtherDocs ==
    UNION { { El("[document]", NoAttrs, l) : l \in OtherLists(n) } : n \in 0..MaxOtherNodes }

\* the elements without a rule that are put around the children
Wrappers ==
    { El(name, attrs, <<>>) :
          name \in {"section", "center"},
          attrs \in { NoAttrs, [style |-> << CODEBLOCK, ";" >>] } }

Wrapped(w, doc) == [doc EXCEPT !.children = << [w EXCEPT !.children = doc.children] >>]

ConvertOther ==
    \/ /\ calls = <<>>
       /\ \E doc \in OtherDocs : Convert(doc, <<>>, <<>>, <<>>, <<>>, <<>>)
    \/ /\ Len(calls) = 1
       /\ \E w \in Wrappers : Convert(Wrapped(w, calls[1].soup), <<>>, <<>>, <<>>, <<>>, <<>>)

NextOther ==
    \/ ConvertOther
    \/ ProcessText
    \/ EnterOther
    \/ ExitOther
    \/ EnterSimple
    \/ ExitSimple
    \/ EnterDiv
    \/ ExitDiv
    \/ EnterList
    \/ ExitList
    \/ EnterListItem
    \/ ExitListItem
    \/ Finish

SpecOther == Init /\ [][NextOther]_vars

(***************************************************************************)
(* The converter on one media element.  The hash is a string of at most    *)
(* MaxHashLen hexadecimal digits, in either case and with leading zeros,   *)
(* or no number, or missing; the caller knows the paths of 10 and of 160.  *)
(***************************************************************************)
MaxHashLen == 2

HashAtoms == {"0", "a", "A"}

RECURSIVE HashesOfLen(_)
HashesOfLen(n) ==
    IF n = 0 THEN { <<>> }
    ELSE { <<c>> \o h : c \in HashAtoms, h \in HashesOfLen(n - 1) }

Hashes == UNION { HashesOfLen(n) : n \in 1..MaxHashLen } \cup { <<"g">> }

MediaTypes == { <<>>, << "image/", "x" >>, << "audio/", "x" >>, << "application/pdf" >> }

MediaStyles ==
    { <<>>, << ATTACHMENT, ";" >>, << ALIGN_CENTER, ";" >>, << ALIGN_RIGHT, ";" >>,
      << ALIGN_FULL, ";" >>, << ALIGN_CENTER, ";", ALIGN_FULL, ";" >> }

MediaSizes ==
    { NoAttrs, [width |-> << "1", "2", "p", "x" >>], [width |-> << "1", ".", "5" >>],
      [width |-> << "x" >>], [height |-> << "autopx" >>] }

Media(hash, type, style, size) ==
    El("en-media", [hash |-> hash, type |-> type, style |-> style] @@ size, <<>>)

\* what follows the media element: nothing, a block, the same element again
After(media) == { <<>>, << El("div", NoAttrs, <<>>) >>, << media >> }

MediaDocs ==
    UNION { { El("[document]", NoAttrs, << Media(h, t, <<>>, NoAttrs) >> \o a) :
                  a \in { <<>>, << Media(h, t, <<>>, NoAttrs) >> } } :
            h \in Hashes, t \in MediaTypes }
    \cup UNION { { El("[document]", NoAttrs, << Media(<<"a">>, t, st, sz) >> \o a) :
                       a \in After(Media(<<"a">>, t, st, sz)) } :
                 t \in { << "image/", "x" >>, << "application/pdf" >> },
                 st \in MediaStyles, sz \in MediaSizes }
    \cup { El("[document]", NoAttrs, << El("en-media", NoAttrs, <<>>) >>) }

MediaPaths ==
    { <<>>,
      (10 :> << "r", "/", "f", ".", "x" >>) @@ (160 :> << "g", ".", "x" >>) }

PdfViews == { <<>>, [pdf_view |-> "title"], [pdf_view |-> "preview"], [pdf_view |-> "x"] }

ConvertMedia ==
    /\ calls = <<>>
    /\ pc = "idle"
    /\ \E doc \in MediaDocs, h2p \in MediaPaths, opts \in PdfViews :
           /\ opts # <<>> => GetAttr(doc.children[1], "type", <<>>) = << "application/pdf" >>
           /\ Convert(doc, <<>>, <<>>, <<>>, h2p, opts)

NextMedia ==
    \/ ConvertMedia
    \/ ProcessMedia
    \/ EnterDiv
    \/ ExitDiv
    \/ Finish

SpecMedia == Init /\ [][NextMedia]_vars

(***************************************************************************)
(* The converter on at most MaxHtmlNodes elements, with and without        *)
(* formatting that Markdown does not have: alignment, colours, highlights, *)
(* underline and superscript, aligned images.                              *)
(***************************************************************************)
MaxHtmlNodes == 2

RED_TEXT == << COLOR_RGB, "(255, 0, 0);" >>

HtmlKinds ==
    LET a == << Txt(<<"a">>) >>
    IN  { El("div", [style |-> << "text-align:center", ";" >>], a),
          El("div", [style |-> << "text-align:right", ";" >>], a),
          El("font", [color |-> << "r", "e", "d" >>], a),
          El("span", [style |-> << HIGHLIGHT, "red", ";" >>], a),
          El("span", [style |-> << HIGHLIGHT, "yellow", ";" >>], a),
          El("span", [style |-> RED_TEXT], a),
          El("span", [style |-> GREEN1], a),
          El("span", [style |-> << "font-weight: bold;" >>], a),
          El("font", [color |-> << "r", "e", "d" >>,
                      style |-> << HIGHLIGHT, "red", ";" >> \o RED_TEXT], a),
          El("u", NoAttrs, << El("font", [color |-> << "r", "e", "d" >>], a) >>),
          El("sup", NoAttrs, a),
          El("b", NoAttrs, a),
          Media(<<"a">>, << "image/", "x" >>, << ALIGN_CENTER, ";" >>, NoAttrs),
          Media(<<"a">>, << "image/", "x" >>, << ALIGN_RIGHT, ";", ALIGN_FULL, ";" >>, NoAttrs) }

RECURSIVE HtmlLists(_)
HtmlLists(n) ==
    IF n = 0 THEN { <<>> }
    ELSE { <<c>> \o l : c \in HtmlKinds, l \in HtmlLists(n - 1) }

HtmlDocs ==
    UNION { { El("[document]", NoAttrs, l) : l \in HtmlLists(n) } : n \in 0..MaxHtmlNodes }

ConvertHtml ==
    /\ calls = <<>>
    /\ pc = "idle"
    /\ \E doc \in HtmlDocs : Convert(doc, <<>>, <<>>, <<>>, (10 :> << "f", ".", "x" >>), <<>>)

NextHtml ==
    \/ ConvertHtml
    \/ ProcessText
    \/ EnterDiv
    \/ ExitDiv
    \/ EnterTextElement
    \/ ExitTextElement
    \/ EnterSimple
    \/ ExitSimple
    \/ ProcessMedia
    \/ Finish

SpecHtml == Init /\ [][NextHtml]_vars

(***************************************************************************)
(* The converter on a table of one row of at most MaxNestedCells cells: a  *)
(* cell holds a text with a pipe, or a table of one such cell, or that     *)
(* table and then the text.                                                *)
(***************************************************************************)
MaxNestedCells == 3

PipeText == Txt(<< "a", "|" >>)

InnerTable ==
    El("table", NoAttrs, << El("tr", NoAttrs, << El("td", NoAttrs, << PipeText >>) >>) >>)

NestedCellKinds ==
    { El("td", NoAttrs, << PipeText >>),
      El("td", NoAttrs, << InnerTable >>),
      El("td", NoAttrs, << InnerTable, PipeText >>) }

RECURSIVE NestedCellLists(_)
NestedCellLists(n) ==
    IF n = 0 THEN { <<>> }
    ELSE { <<c>> \o l : c \in NestedCellKinds, l \in NestedCellLists(n - 1) }

NestedDocs ==
    UNION { { El("[document]", NoAttrs,
                 << El("table", NoAttrs, << El("tr", NoAttrs, cells) >>) >>) :
                  cells \in NestedCellLists(n) } : n \in 1..MaxNestedCells }

ConvertNested ==
    /\ calls = <<>>
    /\ pc = "idle"
    /\ \E doc \in NestedDocs : Convert(doc, <<>>, <<>>, <<>>, <<>>, <<>>)

NextNested ==
    \/ ConvertNested
    \/ ProcessText
    \/ EnterTable
    \/ EnterCell
    \/ ExitCell
    \/ EndRow
    \/ ExitTable
    \/ Finish

SpecNested == Init /\ [][NextNested]_vars

(***************************************************************************)
(* The converter on trees of at most MaxCodeNodes nodes: an asterisk, or a *)
(* block, with or without the style of a code block, around such nodes.    *)
(***************************************************************************)
MaxCodeNodes == 4

RECURSIVE CodeForest(_)
CodeForest(n) ==
    IF n = 0 THEN { <<>> }
    ELSE { <<>> }
         \cup { << Txt(<<"*">>) >> \o rest : rest \in CodeForest(n - 1) }
         \cup UNION { { << El("div", st, kids) >> \o rest :
                            st \in { NoAttrs, [style |-> << CODEBLOCK, ";" >>] },
                            kids \in CodeForest(k), rest \in CodeForest(n - 1 - k) } :
                      k \in 0..(n - 1) }

CodeDocs == { El("[document]", NoAttrs, f) : f \in CodeForest(MaxCodeNodes) }

ConvertCode ==
    /\ calls = <<>>
    /\ pc = "idle"
    /\ use_html
    /\ \E doc \in CodeDocs : Convert(doc, <<>>, <<>>, <<>>, <<>>, <<>>)

NextCode ==
    \/ ConvertCode
    \/ ProcessText
    \/ EnterDiv
    \/ ExitDiv
    \/ Finish

SpecCode == Init /\ [][NextCode]_vars

(***************************************************************************)
(* The converter on a block that holds at most MaxBlockNodes nodes: a      *)
(* text, a bold tag, and block-level elements (block, paragraph, list,     *)
(* quotation).                                                             *)
(***************************************************************************)
MaxBlockNodes == 3

BlockKinds ==
    { Txt(<<"x">>),
      El("b", NoAttrs, << Txt(<<"x">>) >>),
      El("div", NoAttrs, << Txt(<<"a">>) >>),
      El("p", NoAttrs, << Txt(<<"a">>) >>),
      El("ul", NoAttrs, << El("li", NoAttrs, << Txt(<<"a">>) >>) >>),
      El("blockquote", NoAttrs, << Txt(<<"a">>) >>) }

RECURSIVE BlockLists(_)
BlockLists(n) ==
    IF n = 0 THEN { <<>> }
    ELSE { <<c>> \o l : c \in BlockKinds, l \in BlockLists(n - 1) }

BlockDocs ==
    UNION { { El("[document]", NoAttrs, << El("div", NoAttrs, l) >>) :
                  l \in BlockLists(n) } : n \in 0..MaxBlockNodes }

ConvertBlock ==
    /\ calls = <<>>
    /\ pc = "idle"
    /\ use_html
    /\ \E doc \in BlockDocs : Convert(doc, <<>>, <<>>, <<>>, <<>>, <<>>)

NextBlock ==
    \/ ConvertBlock
    \/ ProcessText
    \/ EnterDiv
    \/ ExitDiv
    \/ EnterTextElement
    \/ ExitTextElement
    \/ EnterSimple
    \/ ExitSimple
    \/ EnterList
    \/ ExitList
    \/ EnterListItem
    \/ ExitListItem
    \/ Finish

SpecBlock == Init /\ [][NextBlock]_vars

(***************************************************************************)
(* The converter on at most MaxTaskNodes nodes: task groups with the ids a *)
(* and b, with and without children, and a text; the caller has the tasks  *)
(* of a, or none.                                                          *)
(***************************************************************************)
MaxTaskNodes == 3

TaskGroup(id, children) ==
    El("div", [style |-> << TASKGROUP, ";", ENID >> \o id \o << ";" >>], children)

TaskKinds ==
    { TaskGroup(<<"a">>, <<>>),
      TaskGroup(<<"b">>, <<>>),
      TaskGroup(<<"a", "b">>, << Txt(<<"x">>) >>),
      Txt(<<"x">>) }

RECURSIVE TaskLists(_)
TaskLists(n) ==
    IF n = 0 THEN { <<>> }
    ELSE { <<c>> \o l : c \in TaskKinds, l \in TaskLists(n - 1) }

TaskDocs ==
    UNION { { El("[document]", NoAttrs, l) : l \in TaskLists(n) } : n \in 0..MaxTaskNodes }

TaskText == << "-", SP, "[", "x", "]", SP, "*", "t" >>

TaskMaps == { <<>>, (<<"a">> :> TaskText), (<<"a">> :> TaskText) @@ (<<"a", "b">> :> TaskText) }

ConvertTask ==
    /\ calls = <<>>
    /\ pc = "idle"
    /\ \E doc \in TaskDocs, tk \in TaskMaps : Convert(doc, <<>>, tk, <<>>, <<>>, <<>>)

NextTask ==
    \/ ConvertTask
    \/ ProcessText
    \/ EnterDiv
    \/ ExitDiv
    \/ Finish

SpecTask == Init /\ [][NextTask]_vars

(***************************************************************************)
(* The converter on one span whose style declares any of bold, line-through *)
(* and italic, around at most MaxStyleNodes nodes: texts and an italic tag. *)
(***************************************************************************)
MaxStyleNodes == 2

CssStyles == { "font-weight: bold;", "line-through", "font-style: italic;" }

\* the style strings that declare the styles of S, in some order
RECURSIVE StyleStrings(_)
StyleStrings(S) ==
    IF S = {} THEN { <<>> }
    ELSE UNION { { <<x>> \o rest : rest \in StyleStrings(S \ {x}) } : x \in S }

StyleKids ==
    { Txt(<<"a">>), Txt(<<"a", SP>>), Txt(<<"*">>),
      El("i", NoAttrs, << Txt(<<"b">>) >>) }

RECURSIVE StyleLists(_)
StyleLists(n) ==
    IF n = 0 THEN { <<>> }
    ELSE { <<c>> \o l : c \in StyleKids, l \in StyleLists(n - 1) }

StyleDocs ==
    UNION { { El("[document]", NoAttrs,
                 << El(name, IF st = <<>> THEN NoAttrs ELSE [style |-> st], l) >>) :
                  name \in {"span", "p"},
                  st \in UNION { StyleStrings(S) : S \in SUBSET CssStyles },
                  l \in StyleLists(n) } : n \in 0..MaxStyleNodes }

ConvertStyle ==
    /\ calls = <<>>
    /\ pc = "idle"
    /\ use_html
    /\ \E doc \in StyleDocs : Convert(doc, <<>>, <<>>, <<>>, <<>>, <<>>)

NextStyle ==
    \/ ConvertStyle
    \/ ProcessText
    \/ EnterTextElement
    \/ ExitTextElement
    \/ EnterSimple
    \/ ExitSimple
    \/ Finish

SpecStyle == Init /\ [][NextStyle]_vars

(***************************************************************************)
(* The converter on one span with a text colour (black, one of the two     *)
(* greens of internal links, red), alone or inside a link to a note or to  *)
(* another address, with the option remove_green_link set, cleared, absent.*)
(***************************************************************************)
ColorStyles == { BLACK, GREEN1, GREEN2, RED_TEXT }

ColorSpan(st) == El("span", [style |-> st], << Txt(<<"N">>) >>)

ColorDocs ==
    UNION { { El("[document]", NoAttrs, << ColorSpan(st) >>),
              El("[document]", NoAttrs, << El("a", [href |-> << EXAMPLE >>], << ColorSpan(st) >>) >>),
              El("[document]", NoAttrs,
                 << El("a", [href |-> << EVERNOTE_VIEW, "u", "/", "s", "/", "a", "/", "a", "/" >>],
                       << ColorSpan(st) >>) >>) } : st \in ColorStyles }

GreenOptions == { <<>>, [remove_green_link |-> TRUE], [remove_green_link |-> FALSE] }

ConvertColor ==
    /\ calls = <<>>
    /\ pc = "idle"
    /\ \E doc \in ColorDocs, opts \in GreenOptions :
           Convert(doc, <<>>, <<>>, (<<"a">> :> NotePath), <<>>, opts)

NextColor ==
    \/ ConvertColor
    \/ ProcessText
    \/ EnterTextElement
    \/ ExitTextElement
    \/ EnterLink
    \/ ExitLink
    \/ Finish

SpecColor == Init /\ [][NextColor]_vars

(***************************************************************************)
(* The converter on one table of one column and at most MaxAlignRows rows, *)
(* or of two columns and two rows.  A cell holds a plain letter, or a div  *)
(* that is centred or aligned to the right.                                *)
(***************************************************************************)
MaxAlignRows == 4

AlignCells ==
    { El("td", NoAttrs, << Txt(<<"a">>) >>),
      El("td", NoAttrs, << El("div", [style |-> << "text-align:center", ";" >>], << Txt(<<"a">>) >>) >>),
      El("td", NoAttrs, << El("div", [style |-> << "text-align:right", ";" >>], << Txt(<<"a">>) >>) >>) }

AlignRows(cols) ==
    { El("tr", NoAttrs, cells) : cells \in [1..cols -> AlignCells] }

AlignDocs ==
    { El("[document]", NoAttrs, << El("table", NoAttrs, rows) >>) :
        rows \in UNION { [1..n -> AlignRows(1)] : n \in 1..MaxAlignRows }
                 \cup [1..2 -> AlignRows(2)] }

ConvertAlign ==
    /\ calls = <<>>
    /\ pc = "idle"
    /\ \E doc \in AlignDocs : Convert(doc, <<>>, <<>>, <<>>, <<>>, <<>>)

NextAlign ==
    \/ ConvertAlign
    \/ ProcessText
    \/ EnterDiv
    \/ ExitDiv
    \/ EnterTable
    \/ EnterCell
    \/ ExitCell
    \/ EndRow
    \/ ExitTable
    \/ Finish

SpecAlign == Init /\ [][NextAlign]_vars

(***************************************************************************)
(* The converter on one container with the table-of-contents marker, alone *)
(* or with the code-block or the task-group marker, and at most            *)
(* MaxTocNodes children: a text, a centred container, a task group with    *)
(* and without an identifier.                                              *)
(***************************************************************************)
MaxTocNodes == 2

TocStyles ==
    { << TOC, ";" >>,
      << TOC, ";", CODEBLOCK, ";" >>,
      << CODEBLOCK, ";", TOC, ";" >>,
      << TASKGROUP, ";", ENID, "a", ";", TOC, ";" >> }

TocKids ==
    { Txt(<<"x">>),
      El("div", [style |-> << "text-align:center", ";" >>], << Txt(<<"a">>) >>),
      TaskGroup(<<"b">>, <<>>),
      El("div", [style |-> << TASKGROUP, ";" >>], <<>>) }

TocDocs ==
    { El("[document]", NoAttrs, << El("div", [style |-> st], kids) >>) :
        st \in TocStyles,
        kids \in UNION { [1..n -> TocKids] : n \in 0..MaxTocNodes } }

ConvertToc ==
    /\ calls = <<>>
    /\ pc = "idle"
    /\ \E doc \in TocDocs : Convert(doc, <<>>, (<<"a">> :> TaskText), <<>>, <<>>, <<>>)

NextToc ==
    \/ ConvertToc
    \/ ProcessText
    \/ EnterDiv
    \/ ExitDiv
    \/ Finish

SpecToc == Init /\ [][NextToc]_vars

(***************************************************************************)
(* The converter on at most MaxNewlineNodes nodes: texts that are a line   *)
(* break, a letter, or both, under the root, in a container, in a code     *)
(* block and in a bold tag.                                                *)
(***************************************************************************)
MaxNewlineNodes == 3

NewlineTexts == { Txt(<<NL>>), Txt(<<"a">>), Txt(<<NL, "a">>) }

RECURSIVE NewlineLists(_, _)
NewlineLists(kinds, n) ==
    IF n = 0 THEN { <<>> }
    ELSE { <<>> } \cup { <<c>> \o l : c \in kinds, l \in NewlineLists(kinds, n - 1) }

NewlineWrappers(n) ==
    UNION { { El("div", NoAttrs, kids),
              El("div", [style |-> << CODEBLOCK, ";" >>], kids),
              El("b", NoAttrs, kids) } : kids \in NewlineLists(NewlineTexts, n) }

NewlineDocs ==
    { El("[document]", NoAttrs, l) : l \in NewlineLists(NewlineTexts, MaxNewlineNodes) }
    \cup { El("[document]", NoAttrs, <<w>>) : w \in NewlineWrappers(MaxNewlineNodes - 1) }

ConvertNewline ==
    /\ calls = <<>>
    /\ pc = "idle"
    /\ use_html
    /\ \E doc \in NewlineDocs : Convert(doc, <<>>, <<>>, <<>>, <<>>, <<>>)

NextNewline ==
    \/ ConvertNewline
    \/ ProcessText
    \/ EnterDiv
    \/ ExitDiv
    \/ EnterSimple
    \/ ExitSimple
    \/ Finish

SpecNewline == Init /\ [][NextNewline]_vars

(***************************************************************************)
(* Exporter.export, first pass: the paths of the notes.  The data base     *)
(* holds the notebooks sorted_notebooks; a note has a GUID and a title,    *)
(* and no attachment.                                                      *)
(***************************************************************************)
UpperLetters == << "A", "B", "C", "D", "E", "F", "G", "H", "I", "J", "K", "L", "M",
                   "N", "O", "P", "Q", "R", "S", "T", "U", "V", "W", "X", "Y", "Z" >>
LowerLetters == << "a", "b", "c", "d", "e", "f", "g", "h", "i", "j", "k", "l", "m",
                   "n", "o", "p", "q", "r", "s", "t", "u", "v", "w", "x", "y", "z" >>

\* s.lower()
Lower(s) ==
    [k \in 1..Len(s) |->
        IF \E n \in 1..26 : UpperLetters[n] = s[k]
        THEN LowerLetters[CHOOSE n \in 1..26 : UpperLetters[n] = s[k]] ELSE s[k]]

invalid_chars == { BS, "*", "\"", "/", "<", ">", ":", "|", "?" }

safe_path(path) ==
    LET s == Strip(path)
    IN  [k \in 1..Len(s) |-> IF s[k] \in invalid_chars THEN "_" ELSE s[k]]

\* posixpath.join of two parts
posix_join(a, b) ==
    IF b # <<>> /\ b[1] = "/" THEN b
    ELSE IF a = <<>> \/ a[Len(a)] = "/" THEN a \o b
    ELSE a \o <<"/">> \o b

\* re.sub(r"[\s\.]+$", "", s)
RECURSIVE StripDots(_)
StripDots(s) ==
    IF s # <<>> /\ (IsSpace(s[Len(s)]) \/ s[Len(s)] = ".")
    THEN StripDots(SubSeq(s, 1, Len(s) - 1)) ELSE s

\* the loop of get_unique_filename
RECURSIVE UniqueFrom(_, _, _, _, _)
UniqueFrom(name, extension, existing_files, unique_filename, counter) ==
    IF Lower(unique_filename) \in existing_files
    THEN UniqueFrom(name, extension, existing_files,
                    name \o <<"(">> \o ToDec(counter) \o <<")">> \o extension, counter + 1)
    ELSE unique_filename

get_unique_filename(filename, existing_files) ==
    IF \E k \in 1..Len(filename) : filename[k] = "."
    THEN LET d == CHOOSE k \in 1..Len(filename) :
                      filename[k] = "." /\ \A j \in (k + 1)..Len(filename) : filename[j] # "."
         IN  UniqueFrom(SubSeq(filename, 1, d - 1), SubSeq(filename, d, Len(filename)),
                        existing_files, filename, 1)
    ELSE UniqueFrom(filename, <<>>, existing_files, filename, 1)

output_folder == << "/", "o" >>
note_ext      == << ".", "m", "d" >>

\* the notebooks of the data base, sorted by stack and name in lower case
sorted_notebooks ==
    << [guid |-> "b1", stack |-> <<>>,    name |-> << "B" >>],
       [guid |-> "b2", stack |-> <<>>,    name |-> << "B", "." >>],
       [guid |-> "b3", stack |-> <<"S">>, name |-> << "B" >>] >>

ExportFirstPass(links_with_folders) ==
    /\ export = NotExporting
    /\ export' = [NotExporting EXCEPT
                     !.cfg = [links_with_folders |-> links_with_folders, notebooks |-> {}]]
    /\ UNCHANGED << use_html, soup, args, state, frames, pc, result, calls >>

\* the next notebook of the loop over sorted_notebooks
NextNotebook ==
    /\ export.cfg # <<>>
    /\ export.notebook < Len(sorted_notebooks)
    /\ LET notebook          == sorted_notebooks[export.notebook + 1]
           stack_name        == safe_path(StripDots(Strip(notebook.stack)))
           notebook_name     == safe_path(StripDots(Strip(notebook.name)))
           notebook_path_rel == posix_join(stack_name, notebook_name)
           notebook_path_abs == posix_join(output_folder, notebook_path_rel)
       IN  export' = [export EXCEPT
               !.notebook = @ + 1,
               !.title = <<>>,
               !.notebook_data = Append(@, [guid     |-> notebook.guid,
                                            path_rel |-> notebook_path_rel,
                                            path_abs |-> notebook_path_abs])]
    /\ UNCHANGED << use_html, soup, args, state, frames, pc, result, calls >>

\* the place of a title in "order by title COLLATE NOCASE"
TitleRank(title) ==
    IF title = <<>> THEN 0
    ELSE IF Lower(title) = << "n" >> THEN 1
    ELSE 2

\* the next note of the notebook: its unique relative path and its paths
RegisterNote(guid, title) ==
    /\ export.cfg # <<>>
    /\ export.notebook >= 1
    /\ guid \notin DOMAIN export.guid_to_path_rel
    /\ TitleRank(title) >= TitleRank(export.title)
    /\ LET nb            == export.notebook_data[export.notebook]
           safe_name     == get_unique_filename(safe_path(title \o note_ext),
                                                export.filenames_set)
           note_path_rel == IF export.cfg.links_with_folders
                            THEN posix_join(nb.path_rel, safe_name)
                            ELSE safe_name
           note_path_abs == posix_join(nb.path_abs, safe_name)
       IN  export' = [export EXCEPT
               !.title = title,
               !.filenames_set = @ \cup { Lower(note_path_rel) },
               !.path_to_guid = (note_path_rel :> guid) @@ @,
               !.guid_to_path_rel = (guid :> note_path_rel) @@ @,
               !.guid_to_path_abs = (guid :> note_path_abs) @@ @]
    /\ UNCHANGED << use_html, soup, args, state, frames, pc, result, calls >>

(***************************************************************************)
(* The first pass on at most MaxNotes notes with the titles N, n and N(1)  *)
(***************************************************************************)
MaxNotes == 3

NoteGuids == { << "g", Digit(n) >> : n \in 1..MaxNotes }

NoteTitles == { << "N" >>, << "n" >>, << "N", "(", "1", ")" >> }

Export == \E links_with_folders \in BOOLEAN : ExportFirstPass(links_with_folders)

NextNote == \E guid \in NoteGuids, title \in NoteTitles : RegisterNote(guid, title)

NextExport ==
    \/ Export
    \/ NextNotebook
    \/ NextNote

SpecExport == Init /\ [][NextExport]_vars

(***************************************************************************)
(* The converter on one tree of lists and items of at most MaxItemNodes    *)
(* elements, an item with its style checked, unchecked or without one, in  *)
(* a list or directly under the root.                                      *)
(***************************************************************************)
MaxItemNodes == 4

MarkerStyles ==
    { NoAttrs, [style |-> <<CHECKED, "true", ";">>], [style |-> <<CHECKED, "false", ";">>] }

RECURSIVE ItemForest(_, _), ItemTree(_, _)
ItemForest(n, kinds) ==
    IF n = 0 THEN { <<>> }
    ELSE UNION { { <<t>> \o f : t \in ItemTree(k, kinds), f \in ItemForest(n - k, kinds) }
                 : k \in 1..n }

ItemTree(n, kinds) ==
    (IF "list" \in kinds /\ n >= 2
     THEN { El(nm, NoAttrs, f) : nm \in {"ul", "ol"}, f \in ItemForest(n - 1, {"li"}) }
     ELSE {})
    \cup
    (IF "li" \in kinds
     THEN { El("li", a, << Txt(<<"a">>) >> \o f) :
                a \in MarkerStyles, f \in ItemForest(n - 1, {"list"}) }
     ELSE {})

ItemDocs ==
    UNION { { El("[document]", NoAttrs, << t >>) : t \in ItemTree(n, {"list", "li"}) }
            : n \in 1..MaxItemNodes }

ConvertItem ==
    /\ calls = <<>>
    /\ pc = "idle"
    /\ use_html
    /\ \E doc \in ItemDocs : Convert(doc, <<>>, <<>>, <<>>, <<>>, <<>>)

NextItem ==
    \/ ConvertItem
    \/ ProcessText
    \/ EnterList
    \/ ExitList
    \/ EnterListItem
    \/ ExitListItem
    \/ Finish

SpecItem == Init /\ [][NextItem]_vars

(***************************************************************************)
(* The converter on trees of lists                                         *)
(***************************************************************************)
ConvertList ==
    /\ calls = <<>>
    /\ pc = "idle"
    /\ use_html
    /\ \E doc \in ListDocs : Convert(doc, <<>>, <<>>, <<>>, <<>>, <<>>)

NextList ==
    \/ ConvertList
    \/ ProcessText
    \/ EnterList
    \/ ExitList
    \/ EnterListItem
    \/ ExitListItem
    \/ Finish

SpecList == Init /\ [][NextList]_vars

(***************************************************************************)
(* Reading the Markdown of a tree of lists                                 *)
(***************************************************************************)
\* s.split("\n")
RECURSIVE SplitLines(_)
SplitLines(s) ==
    IF \A k \in 1..Len(s) : s[k] # NL THEN << s >>
    ELSE LET n == CHOOSE k \in 1..Len(s) : s[k] = NL /\ \A j \in 1..(k-1) : s[j] # NL
         IN  << SubSeq(s, 1, n - 1) >> \o SplitLines(SubSeq(s, n + 1, Len(s)))

\* the number of spaces the line begins with
LeadingSpaces(l) ==
    IF \A k \in 1..Len(l) : l[k] = SP THEN Len(l)
    ELSE (CHOOSE k \in 1..Len(l) : l[k] # SP /\ \A j \in 1..(k-1) : l[j] = SP) - 1

\* the line carries the marker of an item: spaces, then "- " or digits and ". "
IsBulletLine(l) ==
    LET n == LeadingSpaces(l)
    IN  n + 2 <= Len(l) /\ l[n+1] = "-" /\ l[n+2] = SP

IsNumberLine(l) ==
    LET n == LeadingSpaces(l)
    IN  /\ n + 1 <= Len(l)
        /\ IsDigit(l[n+1])
        /\ LET e == RunEnd(l, n + 1, {"0", "1", "2", "3", "4", "5", "6", "7", "8", "9"})
           IN  e + 2 <= Len(l) /\ l[e+1] = "." /\ l[e+2] = SP

\* the ordinal of a numbered line
OrdinalOf(l) ==
    LET n == LeadingSpaces(l)
    IN  FromDigits(SubSeq(l, n + 1,
                       RunEnd(l, n + 1, {"0", "1", "2", "3", "4", "5", "6", "7", "8", "9"})))

\* the depth the text of a marker line names
DepthOf(l) == CHOOSE d \in 1..8 : DepthLetter(d) = l[Len(l)]

MarkerLines(md) == SelectSeq(SplitLines(md), LAMBDA l : IsBulletLine(l) \/ IsNumberLine(l))

RenderedOrdinals(md) ==
    LET ls == SelectSeq(SplitLines(md), IsNumberLine)
    IN  [k \in 1..Len(ls) |-> OrdinalOf(ls[k])]

\* the item is numbered: no checked pseudo-property, in an ordered list
IsNumberedItem(list, item) ==
    /\ item.name = "li"
    /\ list.name = "ol"
    /\ ~InStyle(CHECKED, StyleOf(item))

\* the ordinals the items of the tree are to carry, in the order of the
\* output: every ordered list counts its own numbered items from 1
RECURSIVE ExpectedOrdinals(_)
ExpectedOrdinals(node) ==
    LET cs == node.children
        Of(k) ==
            (IF IsNumberedItem(node, cs[k])
             THEN << 1 + Cardinality({j \in 1..(k-1) : IsNumberedItem(node, cs[j])}) >>
             ELSE <<>>)
            \o ExpectedOrdinals(cs[k])
    IN  Concat([k \in 1..Len(cs) |-> Of(k)])

\* C4: the line that carries the marker of a list item at depth d begins with
\* exactly 4*(d-1) spaces, for lists nested directly in lists and for lists
\* nested in list items
C4_ItemIndent ==
    pc = "returned" =>
        \A k \in 1..Len(MarkerLines(result.markdown)) :
            LET l == MarkerLines(result.markdown)[k]
            IN  LeadingSpaces(l) = 4 * (DepthOf(l) - 1)

\* C5: the nesting depth is the length of the stack of list kinds, the stack
\* holds the kinds of the lists being processed, outermost first (so leaving a
\* list restores what entering it found), and a completed conversion leaves
\* depth 0 and an empty stack
OpenLists ==
    LET fs == SelectSeq(frames, LAMBDA f : f.kind = "list")
    IN  [k \in 1..Len(fs) |-> fs[k].node.name]

C5_ListsBalanced ==
    /\ indent_level = Len(list_stack)
    /\ pc = "running" => list_stack = OpenLists
    /\ pc = "returned" => indent_level = 0 /\ list_stack = <<>>

\* C5 witness: back in a list at depth 1 after a nested list has been left
C5_Witness ==
    /\ pc = "running"
    /\ Top.kind = "list"
    /\ indent_level = 1
    /\ Top.i > 1
    /\ Top.node.children[Top.i - 1].name \in {"ul", "ol"}

\* C6: every ordered list numbers its own numbered items 1, 2, 3, ... whatever
\* lists precede it, follow it, are nested in its items or enclose it
C6_OrdinalsRestart ==
    pc = "returned" => RenderedOrdinals(result.markdown) = ExpectedOrdinals(soup)

\* C6 witness: an ordered list in the first item of an ordered list of two items
C6_Witness ==
    /\ pc = "returned"
    /\ RenderedOrdinals(result.markdown) = <<1, 1, 2>>

(***************************************************************************)
(* The Text Escaper                                                        *)
(***************************************************************************)
\* C8: every substring of a text run that the URL pattern matches is in the
\* output of the escaper unchanged, outside and inside a table
C8_UrlsUnchanged ==
    pc = "returned" =>
        \A i \in 1..Len(soup.text) :
            UrlAt(soup.text, i) =>
                IsSubstring(SubSeq(soup.text, i, UrlEnd(soup.text, i)), result.markdown)

\* C8 witness: inside a table, a URL that holds a pipe after an escaped character
C8_Witness ==
    /\ pc = "returned"
    /\ inside_table
    /\ soup.text = <<"*", "http://", "|">>
    /\ result.markdown = <<BS, "*", "http://", "|">>

MarkdownSpecials ==
    {"[", "]", BACKTICK, "*", "$", "_", "%", "<", "#", "^", "=", "~", "-", "+", ">", "|"}

NoSpecials(t) == \A k \in 1..Len(t) : t[k] \notin MarkdownSpecials

\* a line of t begins, after optional white space, with digits, a period and
\* white space
HasNumberedLine(t) ==
    \E i \in 2..(Len(t) - 1) :
        /\ t[i] = "."
        /\ IsSpace(t[i+1])
        /\ IsDigit(t[i-1])
        /\ OnlySpaceBefore(t, RunStart(t, i - 1,
               {"0", "1", "2", "3", "4", "5", "6", "7", "8", "9"}))

\* C9 as claimed: a text run with no Markdown-special character is returned
\* unchanged
C9_Original ==
    pc = "returned" /\ NoSpecials(soup.text) => result.markdown = soup.text

\* C9 as amended: a text run with no Markdown-special character and no line
\* that begins with digits, a period and white space is returned unchanged
C9_Amended ==
    pc = "returned" /\ NoSpecials(soup.text) /\ ~HasNumberedLine(soup.text)
        => result.markdown = soup.text

\* C9 witness: digits and a period that start no numbered line
C9_Witness ==
    /\ pc = "returned"
    /\ soup.text = <<"1", ".", "a">>
    /\ result.markdown = <<"1", ".", "a">>

(***************************************************************************)
(* Links (SpecLink)                                                        *)
(***************************************************************************)
\* the link of a document that is one link, its href and its text
LinkNode == soup.children[1]

LinkHref == GetAttr(LinkNode, "href", <<>>)

HasSpace(h) == \E k \in 1..Len(h) : h[k] = SP

\* the link's visible text as converted: escaped, its brackets as parentheses
\* when the caller asks for that
LinkContent ==
    LET c == escape_text(LinkNode.children[1].text, FALSE, FALSE)
    IN  IF Option("escape_brackets", FALSE)
        THEN ReplaceSeq(ReplaceSeq(c, <<BS, "[">>, <<"(">>), <<BS, "]">>, <<")">>)
        ELSE c

\* the visible text as the note-reference token shows it: brackets unescaped
LinkLabel ==
    ReplaceSeq(ReplaceSeq(LinkContent, <<BS, "[">>, <<"[">>), <<BS, "]">>, <<"]">>)

NoteReference(path, label) ==
    <<"[", "[">> \o path \o <<"|">> \o label \o <<"]", "]">>

\* the href as the handler matches it: in angle brackets when it holds a space
LinkTarget ==
    IF HasSpace(LinkHref) THEN <<"<">> \o LinkHref \o <<">">> ELSE LinkHref

ViewLinks(id) ==
    { <<EVERNOTE_VIEW>> \o u \o <<"/">> \o sh \o <<"/">> \o id \o <<"/">> \o id \o <<"/">> :
        u \in Segments, sh \in Segments }

\* C10: a link evernote:///view/<user>/<shard>/<id>/<id>/ whose identifier
\* is a key of guid_to_path is rendered as [[guid_to_path[id]|visible text]]
\* and no warning is emitted
C10_ResolvedLink ==
    pc = "returned" =>
        \A id \in DOMAIN guid_to_path :
            LinkHref \in ViewLinks(id) =>
                /\ result.markdown = NoteReference(guid_to_path[id], LinkLabel)
                /\ result.warnings = <<>>

\* the statement of C10 for the identifiers of hexadecimal digits and dashes
\* that are mapped to a path that is not empty
C10_ResolvedHexLink ==
    pc = "returned" =>
        \A id \in DOMAIN guid_to_path :
            /\ LinkHref \in ViewLinks(id)
            /\ \A k \in 1..Len(id) : IsHex(id[k]) \/ id[k] = "-"
            /\ guid_to_path[id] # <<>>
            => /\ result.markdown = NoteReference(guid_to_path[id], LinkLabel)
               /\ result.warnings = <<>>

(***************************************************************************)
(* Tables (SpecTable)                                                      *)
(***************************************************************************)
\* the table of a document that is one table, its rows and their cells
TheTable == soup.children[1]

RowsOfTable == TheTable.children

CellsOfRow(r) == RowsOfTable[r].children

\* no cell declares a colspan or a rowspan
Spanless ==
    \A r \in 1..Len(RowsOfTable) : \A c \in 1..Len(CellsOfRow(r)) :
        DOMAIN CellsOfRow(r)[c].attrs \cap {"colspan", "rowspan"} = {}

\* the largest number of cells of a row
MaxCellsInAnyRow ==
    LET ns == { Len(CellsOfRow(r)) : r \in 1..Len(RowsOfTable) }
    IN  IF ns = {} THEN 0 ELSE CHOOSE m \in ns : \A n \in ns : n <= m

PipeCount(s) == Cardinality({ i \in 1..Len(s) : s[i] = "|" })

\* the rendered rows: the lines of the output that are not empty
RenderedRows == SelectSeq(SplitLines(result.markdown), LAMBDA l : l # <<>>)

\* the grid of every table being converted has rows x maxCellsInAnyRow cells
GridIsRowsByMaxCells ==
    \A f \in 1..Len(frames) :
        frames[f].kind = "table" =>
            /\ Len(frames[f].t.grid) = Len(RowsOfTable)
            /\ \A r \in 1..Len(RowsOfTable) :
                   Len(frames[f].t.grid[r]) = MaxCellsInAnyRow

RECURSIVE PipesInCells(_)
PipesInCells(cells) ==
    IF cells = <<>> THEN 0
    ELSE PipeCount(Head(cells).children[1].text) + PipesInCells(Tail(cells))

\* the pipes that delimit the columns of a rendered row
Delimiters == IF MaxCellsInAnyRow = 0 THEN 2 ELSE MaxCellsInAnyRow + 1

\* the row of the table that line l of the output renders; 0 for the separators
RowOfLine(l) == IF l = 1 THEN 1 ELSE IF l = 2 THEN 0 ELSE l - 1

HasMalformedMediaHash(doc) ==
    \E m \in 1..Len(find_all(doc, {"en-media"})) :
        LET hash == GetAttr(find_all(doc, {"en-media"})[m], "hash", <<>>)
        IN  hash = <<>> \/ \E k \in 1..Len(hash) : ~IsHex(hash[k]) \/ hash[k] = "-"

\* C1: convert_html_to_markdown never raises, whatever markup the tree
\* contains, unless a media element has a malformed hash
C1_NeverRaises ==
    pc = "raised" => HasMalformedMediaHash(soup)

\* C2: the result of a call depends only on its arguments and on use_html:
\* two calls of the instance with the same tree and the same arguments have
\* the same result, the first of them being a call on a fresh instance
C2_NoLeak ==
    \A i \in 1..Len(calls) : \A j \in 1..Len(calls) :
        calls[i].soup = calls[j].soup /\ calls[i].args = calls[j].args
            => calls[i].result = calls[j].result

\* C2 witness: a call that returns, the same call again after a call that
\* raised in the middle of a table
C2_Witness ==
    /\ Len(calls) = 3
    /\ calls[1].result.exception = "none"
    /\ calls[1].result.markdown # <<>>
    /\ calls[2].result.exception = "KeyError"
    /\ calls[3].soup = calls[1].soup
    /\ calls[3].args = calls[1].args
    /\ calls[3].result = calls[1].result

(***************************************************************************)
(* The returned warnings (SpecWarn)                                        *)
(***************************************************************************)
\* the messages emitted during the call, and how often each
Emitted == { warnings[k] : k \in 1..Len(warnings) }

Occurrences(m) == Cardinality({ k \in 1..Len(warnings) : warnings[k] = m })

\* a message as the returned list renders it
Rendered(m) ==
    IF Occurrences(m) = 1 THEN m
    ELSE m \o <<SP, "[">> \o ToDec(Occurrences(m)) \o <<"x", "]">>

\* the message that entry k of the returned list renders
MessageOf(k) == CHOOSE m \in Emitted : Rendered(m) = result.warnings[k]

RECURSIVE SumOccurrences(_)
SumOccurrences(k) ==
    IF k = 0 THEN 0 ELSE Occurrences(MessageOf(k)) + SumOccurrences(k - 1)

\* C11: the returned list holds every distinct message emitted during the
\* call exactly once, bare when it occurred once and as 'message [Nx]' when it
\* occurred N > 1 times, by descending count and, among equal counts, by
\* ascending message text; the counts sum to the number of warnings emitted
C11_ReturnedWarnings ==
    pc = "returned" =>
        /\ Len(result.warnings) = Cardinality(Emitted)
        /\ \A m \in Emitted :
               Cardinality({ k \in 1..Len(result.warnings) :
                                 result.warnings[k] = Rendered(m) }) = 1
        /\ \A k \in 1..(Len(result.warnings) - 1) :
               \/ Occurrences(MessageOf(k)) > Occurrences(MessageOf(k + 1))
               \/ /\ Occurrences(MessageOf(k)) = Occurrences(MessageOf(k + 1))
                  /\ CharsLess(Spell(MessageOf(k)), Spell(MessageOf(k + 1)))
        /\ SumOccurrences(Len(result.warnings)) = Len(warnings)

\* C11 witness: a message that occurred twice before two that occurred once,
\* these two in the order of their text
C11_Witness ==
    /\ pc = "returned"
    /\ use_html
    /\ result.warnings =
           << << "Path to link GUID not found: ", "b", SP, "(", "N", ")", SP, "[",
                 "2", "x", "]" >>,
              << "Added unsupported HTML: ", "text-align:center / <center>" >>,
              << "Path to link GUID not found: ", "a", SP, "(", "N", ")" >> >>

(***************************************************************************)
(* Bold, italic and strikethrough tags (SpecSimple)                        *)
(***************************************************************************)
\* the white space at the start and at the end of a text that is not all
\* white space
LeadingSpace(s) ==
    SubSeq(s, 1, (CHOOSE i \in 1..Len(s) :
                      ~IsSpace(s[i]) /\ \A j \in 1..(i-1) : IsSpace(s[j])) - 1)

TrailingSpace(s) ==
    SubSeq(s, (CHOOSE i \in 1..Len(s) :
                   ~IsSpace(s[i]) /\ \A j \in (i+1)..Len(s) : IsSpace(s[j])) + 1, Len(s))

\* the text that the handler on top of the stack returns to its caller in
\* this step
ReturnedText ==
    SubSeq(frames'[Len(frames) - 1].acc, Len(Caller.acc) + 1,
           Len(frames'[Len(frames) - 1].acc))

\* C12: a bold, italic or strikethrough tag (its first child no link) yields
\* the empty string when the text of its children is empty or all white space,
\* and otherwise the white space at the start of that text, the marker, the
\* text without the white space at its ends, the marker, and the white space
\* at the end of that text
C12_WhitespaceKept ==
    [][ ( /\ AtEnd("simple")
          /\ Top.node.name \in {"b", "strong", "i", "em", "s", "del"} )
        => IF \A k \in 1..Len(Top.acc) : IsSpace(Top.acc[k])
           THEN ReturnedText = <<>>
           ELSE \/ Top.node.children[1].name = "a"
                \/ ReturnedText =
                       LeadingSpace(Top.acc) \o Marker(Top.node.name) \o Strip(Top.acc)
                       \o Marker(Top.node.name) \o TrailingSpace(Top.acc) ]_vars

(***************************************************************************)
(* Elements without a rule (SpecOther)                                     *)
(***************************************************************************)
\* C13: an element without a rule around the children of the document gives
\* the text and the warnings that the children give without it, and while
\* the element waits for its children the conversion state is the one its
\* children cause: no list is open and no code block or table is entered
\* but by the children
C13_PassThrough ==
    /\ Len(calls) = 2 =>
           /\ calls[2].result.markdown = calls[1].result.markdown
           /\ calls[2].result.warnings = calls[1].result.warnings
           /\ calls[2].result.exception = "none"
    /\ (pc = "running" /\ Top.kind = "other") =>
           /\ ~inside_pre
           /\ ~inside_table
           /\ list_stack = <<>>
           /\ indent_level = 0
           /\ \A k \in 1..Len(warnings) : warnings[k][2] = "text-align:center / <center>"
           /\ Len(warnings) =
                  Cardinality({ k \in 1..(Top.i - 1) : Top.node.children[k].name = "div" })

\* C13 witness: an element that is styled as a code block and has no rule,
\* around an asterisk, a list and a centred block
C13_Witness ==
    /\ Len(calls) = 2
    /\ InStyle(CODEBLOCK, StyleOf(calls[2].soup.children[1]))
    /\ \E k \in 1..Len(calls[1].soup.children) : calls[1].soup.children[k].name = "#text"
    /\ \E k \in 1..Len(calls[1].soup.children) : calls[1].soup.children[k].name = "ul"
    /\ calls[2].result.warnings # <<>>
    /\ calls[2].result.markdown # <<>>

(***************************************************************************)
(* Media elements (SpecMedia)                                              *)
(***************************************************************************)
MediaOf(doc) == find_all(doc, {"en-media"})

\* the hash of every media element of the tree is a string of hexadecimal
\* digits, and its width, if any, a number
WellFormedMedia(doc) ==
    \A m \in 1..Len(MediaOf(doc)) :
        LET hash  == GetAttr(MediaOf(doc)[m], "hash", <<>>)
            width == GetAttr(MediaOf(doc)[m], "width", <<>>)
        IN  /\ hash # <<>>
            /\ \A k \in 1..Len(hash) : IsHexDigit(hash[k])
            /\ width \in { <<>>, << "1", "2", "p", "x" >>, << "1", ".", "5" >> }

\* the hexadecimal spelling of n, in lower case and without leading zeros
RECURSIVE HexSpelling(_)
HexSpelling(n) ==
    IF n < 16 THEN << HexDigits[n + 1] >>
    ELSE HexSpelling(n \div 16) \o << HexDigits[(n % 16) + 1] >>

LowerCase(h) ==
    [k \in 1..Len(h) |->
        IF \E n \in 1..16 : UpperHexDigits[n] = h[k]
        THEN HexDigits[CHOOSE n \in 1..16 : UpperHexDigits[n] = h[k]] ELSE h[k]]

RECURSIVE NoLeadingZeros(_)
NoLeadingZeros(h) == IF Len(h) > 1 /\ h[1] = "0" THEN NoLeadingZeros(Tail(h)) ELSE h

\* the keys of hash_to_path that the hash spells
KeysOf(hash) ==
    { n \in DOMAIN hash_to_path : HexSpelling(n) = NoLeadingZeros(LowerCase(hash)) }

\* the path that the claim gives the media element
ClaimedPath(media) ==
    IF KeysOf(media.attrs.hash) = {} THEN media.attrs.hash
    ELSE hash_to_path[CHOOSE n \in KeysOf(media.attrs.hash) : TRUE]

\* the path stands in the Markdown where a link or an image names its file
PathUsed(path) ==
    \E k \in 1..(Len(result.markdown) - Len(path)) :
        /\ \/ result.markdown[k] \in { IMG_CENTER, IMG_RIGHT, IMG_FULL }
           \/ k > 1 /\ result.markdown[k] = "[" /\ result.markdown[k - 1] = "["
        /\ SubSeq(result.markdown, k + 1, k + Len(path)) = path

\* C14: the hash of a media element is looked up by its value; a hash whose
\* value has no path does not stop the conversion, stands for the path, and
\* adds one 'Path to media hash not found' warning with the hash for each
\* element that has it, and a hash whose value has a path adds none
C14_MediaHash ==
    WellFormedMedia(soup) =>
        /\ pc # "raised"
        /\ pc = "returned" =>
               \A m \in 1..Len(MediaOf(soup)) :
                   LET media == MediaOf(soup)[m]
                   IN  /\ PathUsed(ClaimedPath(media))
                       /\ Occurrences(<< MEDIA_WARNING >> \o media.attrs.hash) =
                              IF KeysOf(media.attrs.hash) # {} THEN 0
                              ELSE Cardinality({ o \in 1..Len(MediaOf(soup)) :
                                       MediaOf(soup)[o].attrs.hash = media.attrs.hash })

\* C14 witness: the hash a0 in upper case resolves to the path of 160
C14_Witness ==
    /\ pc = "returned"
    /\ Len(MediaOf(soup)) = 1
    /\ MediaOf(soup)[1].attrs.hash = << "A", "0" >>
    /\ 160 \in DOMAIN hash_to_path
    /\ result.markdown = << "[", "[", "g", ".", "x", "|", "g", ".", "x", "]", "]" >>
    /\ result.warnings = <<>>

\* C14 witness of the other case: two elements with the hash 0a, which has
\* no path, give the hash as the path and the warning twice
C14_WitnessUnknown ==
    /\ pc = "returned"
    /\ Len(MediaOf(soup)) = 2
    /\ MediaOf(soup)[1].attrs.hash = << "0", "a" >>
    /\ hash_to_path = <<>>
    /\ Len(warnings) = 2
    /\ PathUsed(<< "0", "a" >>)

(***************************************************************************)
(* The HTML fallback (SpecHtml)                                            *)
(***************************************************************************)
\* the atoms that only an HTML wrapper of the converter puts into the text
HtmlAtoms ==
    { "<", "<center>", "</center>", "<span style=\"", "</span>", "\">",
      IMG_CENTER, IMG_RIGHT, IMG_FULL, IMG_END, IMG_FULL_END }

\* the decisions that the formatting of the node itself asks for
OwnDecisions(node) ==
    LET style == StyleOf(node)
        One(b) == IF b THEN 1 ELSE 0
        fontColor == GetAttr(node, "color", <<>>) # <<>>
    IN  IF node.name = "div"
        THEN One(InStyle("text-align:center", style) \/ InStyle("text-align:right", style))
        ELSE IF node.name \in {"p", "span", "font"}
        THEN IF fontColor /\ use_html THEN 1
             ELSE One(fontColor) + One(InStyle(HIGHLIGHT, style))
                  + One(InStyle(COLOR_RGB, style) /\ style \notin {BLACK, GREEN1})
        ELSE IF node.name \in {"u", "sup", "sub"} THEN 1
        ELSE IF node.name = "en-media"
        THEN LET n == One(InStyle(ALIGN_CENTER, style)) + One(InStyle(ALIGN_RIGHT, style))
                      + One(InStyle(ALIGN_FULL, style))
             IN  IF use_html /\ n > 0 THEN 1 ELSE n
        ELSE 0

RECURSIVE Decisions(_)
Decisions(node) ==
    LET F[k \in 0..Len(node.children)] ==
            IF k = 0 THEN 0 ELSE F[k - 1] + Decisions(node.children[k])
    IN  OwnDecisions(node) + F[Len(node.children)]

\* C15: every decision of the fallback adds one warning, 'Added unsupported
\* HTML: X' when use_html is set and 'Removed unsupported HTML: X' when it is
\* not, and the text holds an HTML wrapper only when use_html is set
C15_HtmlFallback ==
    pc = "returned" =>
        /\ Len(warnings) = Decisions(soup)
        /\ \A k \in 1..Len(warnings) :
               /\ Len(warnings[k]) = 2
               /\ warnings[k][1] = IF use_html THEN "Added unsupported HTML: "
                                   ELSE "Removed unsupported HTML: "
        /\ ~use_html => \A k \in 1..Len(result.markdown) : result.markdown[k] \notin HtmlAtoms

\* C15 witness: without use_html, an underlined coloured text and an image
\* aligned in two ways give four warnings and no wrapper
C15_Witness ==
    /\ pc = "returned"
    /\ ~use_html
    /\ Len(soup.children) = 2
    /\ soup.children[1].name = "u"
    /\ soup.children[2].name = "en-media"
    /\ InStyle(ALIGN_FULL, StyleOf(soup.children[2]))
    /\ Len(warnings) = 4
    /\ result.markdown = << "a", "!", "[", "[", "f", ".", "x", "|", "f", ".", "x", "]", "]", SP >>

(***************************************************************************)
(* Cells that span rows (SpecTable)                                        *)
(***************************************************************************)
\* the tables that are being converted
TableFrames == { f \in 1..Len(frames) : frames[f].kind = "table" }

\* C16: in the second pass over a table the column cursor stays in the grid:
\* no rowspan counter is read or updated for a column that the grid does not
\* have (the KeyError of row_spans[col_num]), whatever the cells span
C16_CursorInGrid ==
    /\ pc = "raised" => result.exception = "ValueError"
    /\ pc = "running" =>
           \A f \in TableFrames :
               /\ frames[f].t.col_num <= frames[f].t.max_cols
               /\ frames[f].t.row_num <= Len(frames[f].t.rows) + 1

\* C17: the remaining-rowspan counter of a column is never negative
C17_CountersNotNegative ==
    pc = "running" =>
        \A f \in TableFrames :
            \A c \in 1..Len(frames[f].t.row_spans) : frames[f].t.row_spans[c] >= 0

(***************************************************************************)
(* Tables in tables (SpecNested)                                           *)
(***************************************************************************)
\* the text that the handler on top of the stack gains in this step
AppendedText ==
    SubSeq(frames'[Len(frames)].acc, Len(Top.acc) + 1, Len(frames'[Len(frames)].acc))

\* C18: a pipe of a text node anywhere inside a cell of a table comes out
\* with a backslash before it, also in the cells and the texts that are
\* processed after a table inside the table has been closed
C18_PipesEscapedInCells ==
    [][ ( /\ AtChild
          /\ Child.name = "#text"
          /\ \E f \in 1..Len(frames) : frames[f].kind = "cell" )
        => \A k \in 1..Len(AppendedText) :
               AppendedText[k] = "|" => k > 1 /\ AppendedText[k - 1] = BS ]_vars

(***************************************************************************)
(* The passes of the Text Escaper (SpecEscape)                             *)
(***************************************************************************)
\* C19: no pass escapes again what an earlier pass has escaped: the output of
\* the escaper for a text without backslashes never has two backslashes in a
\* row, outside and inside a table
C19_EscapedOnce ==
    pc = "returned" =>
        \A k \in 1..(Len(result.markdown) - 1) :
            ~(result.markdown[k] = BS /\ result.markdown[k + 1] = BS)

\* the same outside a table only
C19_EscapedOnceOutsideTable ==
    (pc = "returned" /\ ~inside_table) =>
        \A k \in 1..(Len(result.markdown) - 1) :
            ~(result.markdown[k] = BS /\ result.markdown[k + 1] = BS)

(***************************************************************************)
(* Code blocks (SpecCode)                                                  *)
(***************************************************************************)
\* a handler that waits for its children is the one of a code-block container
InCodeBlock == \E f \in 1..Len(frames) : EntersCodeblock(frames[f].node)

\* C20: a text node below a code-block container is emitted as it is, at
\* every place of the subtree of the container, and a text node below none is
\* escaped; inside_pre is false when no code-block container is open
C20_CodeBlockVerbatim ==
    [][ /\ (AtChild /\ Child.name = "#text") =>
               AppendedText = IF InCodeBlock THEN Child.text
                              ELSE escape_text(Child.text, FALSE, inside_table)
        /\ (pc = "running" /\ ~InCodeBlock) => ~inside_pre ]_vars

(***************************************************************************)
(* Blocks after inline content (SpecBlock)                                 *)
(***************************************************************************)
\* the handler of a block-level element whose children gave some text
\* returns in this step
BlockReturns ==
    /\ pc = "running"
    /\ Len(frames) > 1
    /\ Top.acc # <<>>
    /\ Top.kind \in {"div", "text", "simple", "list", "li"}
    /\ Top.i > Len(Top.node.children)
    /\ Top.node.name \in block_level_elements

\* the element has a sibling before it, and that sibling is a text node or
\* an element that is not block-level
AfterInline ==
    /\ Caller.i > 1
    /\ Caller.node.children[Caller.i - 1].name \notin block_level_elements

\* C21: the text of a block-level element begins with one newline when the
\* sibling before it exists and is no block-level element (an inline element
\* or a text node), and with none when there is no sibling before it or that
\* sibling is block-level
C21_BlockPrefix ==
    [][ BlockReturns =>
            IF AfterInline
            THEN /\ Len(ReturnedText) > 1
                 /\ ReturnedText[1] = NL
                 /\ ReturnedText[2] # NL
            ELSE /\ ReturnedText # <<>>
                 /\ ReturnedText[1] # NL ]_vars

(***************************************************************************)
(* Task groups (SpecTask)                                                  *)
(***************************************************************************)
\* the task groups of the tree, and the id of one
TaskGroupsOf(doc) ==
    SelectSeq(find_all(doc, {"div"}), LAMBDA d : InStyle(TASKGROUP, StyleOf(d)))

GroupId(group) == SubSeq(StyleOf(group), 4, Len(StyleOf(group)) - 1)

\* the line of a task group whose tasks the caller does not have
Placeholder(id) ==
    << "-", SP, "[", SP, "]", SP, "==Could not find task(s) ID " >> \o id
    \o << " during conversion==" >>

\* C22: a task group whose id is a key of the task map gives the text of the
\* map as it is; one whose id is no key gives the placeholder line with the
\* id, and a warning about the missing task group is among the warnings of
\* the call
C22_TaskGroup ==
    pc = "returned" =>
        \A g \in 1..Len(TaskGroupsOf(soup)) :
            LET id == GroupId(TaskGroupsOf(soup)[g])
            IN  IF id \in DOMAIN tasks
                THEN IsSubstring(tasks[id] \o <<NL>>, result.markdown)
                ELSE /\ IsSubstring(Placeholder(id) \o <<NL>>, result.markdown)
                     /\ \E w \in 1..Len(result.warnings) : IsSubstring(id, result.warnings[w])

(***************************************************************************)
(* Bold, italic and strikethrough by CSS (SpecStyle)                       *)
(***************************************************************************)
\* the simple tag that stands for a CSS style
TagOfStyle(x) ==
    IF x = "font-weight: bold;" THEN "b" ELSE IF x = "line-through" THEN "s" ELSE "i"

\* the text begins, after white space, with the markers ms in some order and
\* ends, before white space, with them
RECURSIVE WrappedIn(_, _)
WrappedIn(text, tags) ==
    IF tags = {} THEN TRUE
    ELSE \E x \in tags :
            LET m == Marker(x)
                t == Strip(text)
            IN  /\ Len(t) >= 2 * Len(m)
                /\ SubSeq(t, 1, Len(m)) = m
                /\ SubSeq(t, Len(t) - Len(m) + 1, Len(t)) = m
                /\ WrappedIn(SubSeq(t, Len(m) + 1, Len(t) - Len(m)), tags \ {x})

\* C23: a wrapper whose style declares bold, italic or strikethrough, one or
\* several of them, gives its text inside the marker of every declared style
C23_EveryDeclaredStyle ==
    [][ ( /\ AtEnd("text")
          /\ \E k \in 1..Len(TextOf(Top.node)) : ~IsSpace(TextOf(Top.node)[k]) )
        => WrappedIn(ReturnedText,
                     { TagOfStyle(x) : x \in { y \in CssStyles : InStyle(y, StyleOf(Top.node)) } })
      ]_vars

\* the same for the wrappers that declare one style
C23_OneDeclaredStyle ==
    [][ ( /\ AtEnd("text")
          /\ Len(StyleOf(Top.node)) = 1
          /\ \E k \in 1..Len(TextOf(Top.node)) : ~IsSpace(TextOf(Top.node)[k]) )
        => WrappedIn(ReturnedText, { TagOfStyle(StyleOf(Top.node)[1]) }) ]_vars

(***************************************************************************)
(* Text colours (SpecColor)                                                *)
(***************************************************************************)
\* the wrapper on top of the stack is the child of a link to a note
InInternalLink ==
    /\ Caller.node.name = "a"
    /\ GetAttr(Caller.node, "href", <<>>) # <<>>
    /\ GetAttr(Caller.node, "href", <<>>)[1] \in { EVERNOTE_VIEW, WWW_EVERNOTE, SHARE_NOTE }

\* C24: a text colour is left out only when it is plain black, or when it is
\* one of the greens of internal links and the wrapper is the child of a link
\* to a note and remove_green_link is on; in every other case the content is
\* inside a span with the style when use_html is set
C24_ColorSuppressed ==
    [][ ( /\ AtEnd("text")
          /\ InStyle(COLOR_RGB, StyleOf(Top.node)) )
        => IF \/ StyleOf(Top.node) = BLACK
              \/ /\ StyleOf(Top.node) \in { GREEN1, GREEN2 }
                 /\ InInternalLink
                 /\ Option("remove_green_link", TRUE)
           THEN ReturnedText = Top.acc
           ELSE use_html =>
                    ReturnedText = << "<span style=\"" >> \o StyleOf(Top.node) \o << "\">" >>
                                   \o Top.acc \o << "</span>" >> ]_vars

(***************************************************************************)
(* The separator row of a table (SpecAlign)                                *)
(***************************************************************************)
\* the table on top of the stack has filled its grid and returns its lines
TableReturns ==
    /\ pc = "running"
    /\ Top.kind = "table"
    /\ Top.t.row_num > Len(Top.t.rows)

\* the alignment that the cell c of the row r of the table declares
DeclaredAlign(r, c) ==
    LET cell  == find_all(Top.t.rows[r], {"th", "td"})[c]
        first == cell.children[1]
    IN  IF first.name = "#text" THEN LEFT
        ELSE IF InStyle("text-align:center", StyleOf(first)) THEN CENTER
        ELSE IF InStyle("text-align:right", StyleOf(first)) THEN RIGHT
        ELSE LEFT

DeclaredColumn(c) == [r \in 1..Len(Top.t.rows) |-> DeclaredAlign(r, c)]

\* the values that the largest number of the cells of a column hold
MostCommon(xs) ==
    { v \in {LEFT, CENTER, RIGHT} :
        \A w \in {LEFT, CENTER, RIGHT} : Count(xs, w) <= Count(xs, v) }

FirstInFixedOrder(xs) ==
    IF LEFT \in MostCommon(xs) THEN LEFT
    ELSE IF CENTER \in MostCommon(xs) THEN CENTER
    ELSE RIGHT

FirstInRows(xs) ==
    xs[CHOOSE i \in 1..Len(xs) :
          /\ xs[i] \in MostCommon(xs)
          /\ \A j \in 1..(i - 1) : xs[j] \notin MostCommon(xs)]

\* the text of a table whose separators are chosen by pick
TableWith(pick(_)) ==
    LET grid == Top.t.grid
        rows == [r \in 1..Len(grid) |->
                    TableLine([c \in 1..Top.t.max_cols |-> grid[r][c].content])]
        separators == TableLine([c \in 1..Top.t.max_cols |-> pick(DeclaredColumn(c))])
    IN  <<NL>> \o Join(<<NL>>, << rows[1], separators >> \o Tail(rows)) \o <<NL>>

\* C25 as stated: the token of a column is the most common alignment of its
\* cells, and of several most common ones the first of left, center, right
C25_FixedOrder ==
    [][ TableReturns => ReturnedText = TableWith(FirstInFixedOrder) ]_vars

\* C25 (amended): the token of a column is the most common alignment of its
\* cells, and of several most common ones that of the topmost row
C25_FirstRowWins ==
    [][ TableReturns => ReturnedText = TableWith(FirstInRows) ]_vars

\* a table of two rows has returned, its first row centred, its second not
C25_Witness ==
    /\ pc = "returned"
    /\ Len(soup.children[1].children) = 2
    /\ \E k \in 1..(Len(result.markdown) - 2) :
           /\ result.markdown[k] = ":"
           /\ result.markdown[k + 1] = "-"
           /\ result.markdown[k + 2] = ":"
    /\ soup.children[1].children[2].children[1].children[1].name = "#text"
    /\ soup.children[1].children[1].children[1].children[1].name = "div"
    /\ Len(soup.children[1].children[1].children) = 1

(***************************************************************************)
(* External and internal links (SpecLink)                                  *)
(***************************************************************************)
\* the path of a note reference: that of the identifier, or the visible text
\* when guid_to_path has the identifier not, or with an empty path
LinkPath(guid) ==
    IF guid \in DOMAIN guid_to_path /\ guid_to_path[guid] # <<>>
    THEN guid_to_path[guid]
    ELSE LinkContent

\* C26: a link is rendered as [text](target) if and only if its href matches
\* none of the three internal shapes, the target in angle brackets when it
\* holds a space; an href that matches a shape, with or without a space, is
\* rendered as a note reference of its identifier
C26_LinkKinds ==
    pc = "returned" =>
        IF LinkGuid(LinkHref).found
        THEN result.markdown = NoteReference(LinkPath(LinkGuid(LinkHref).guid), LinkLabel)
        ELSE result.markdown = <<"[">> \o LinkContent \o <<"]", "(">> \o LinkTarget \o <<")">>

(***************************************************************************)
(* The table of contents (SpecToc)                                         *)
(***************************************************************************)
\* C27: a container with the table-of-contents marker yields the placeholder
\* and a line break whatever its children are, adds the table-of-contents
\* warning and no other, and does so with the code-block and the task-group
\* marker as well
C27_TocDiscardsChildren ==
    pc \in {"returned", "raised"} =>
        /\ pc = "returned"
        /\ result.markdown = << TOC_TEXT, NL >>
        /\ warnings = << << TOC_WARNING >> >>

(***************************************************************************)
(* Texts that are one line break (SpecNewline)                             *)
(***************************************************************************)
\* C28: a text that is exactly one line break yields the empty string when
\* it is a child of the root, and only then: deeper in the tree it is
\* escaped as every other text, and kept as it is inside a code block
C28_NewlineUnderRoot ==
    [][ ( /\ AtChild
          /\ Child.name = "#text"
          /\ Child.text = <<NL>> )
        => IF Len(frames) = 1
           THEN AppendedText = <<>>
           ELSE IF inside_pre THEN AppendedText = <<NL>>
           ELSE AppendedText = escape_text(<<NL>>, FALSE, inside_table) ]_vars

\* a line break under the root yields the empty string
C28_RootNewline ==
    [][ ( /\ AtChild
          /\ Child.name = "#text"
          /\ Child.text = <<NL>>
          /\ Len(frames) = 1 )
        => AppendedText = <<>> ]_vars

(***************************************************************************)
(* The marker of a list item (SpecItem)                                    *)
(***************************************************************************)
IsCheckbox(node) == InStyle(CHECKED, StyleOf(node))

\* the items before the item on top of the stack, in the same parent, that
\* are no checkboxes
OrdinalsBefore ==
    Cardinality({ k \in 1..(Caller.i - 1) :
                    /\ Caller.node.children[k].name = "li"
                    /\ ~IsCheckbox(Caller.node.children[k]) })

\* C29: an item whose style has the checked property gets a checkbox, [x]
\* when the property is true and [ ] otherwise, and takes no ordinal of its
\* list; another item gets the next ordinal of its depth when the innermost
\* list that is open as the item is rendered is ordered, and a bullet
\* otherwise
C29_MarkerPriority ==
    [][ AtEnd("li")
        => LET style == StyleOf(Top.node)
               line(marker) == Top.t.indent \o marker \o <<SP>>
                               \o ItemContent(Top.acc, Top.t.indent) \o <<NL>>
           IN  IF IsCheckbox(Top.node)
               THEN /\ ReturnedText =
                          line(IF IsSubstring(<<CHECKED, "true">>, style)
                               THEN <<"-", SP, "[", "x", "]">>
                               ELSE <<"-", SP, "[", SP, "]">>)
                    /\ number_indent' = number_indent
               ELSE IF list_stack # <<>> /\ list_stack[Len(list_stack)] = "ol"
               THEN /\ ReturnedText = line(ToDec(OrdinalsBefore + 1) \o <<".">>)
                    /\ number_indent'[indent_level] = OrdinalsBefore + 1
               ELSE /\ ReturnedText = line(<<"-">>)
                    /\ number_indent' = number_indent ]_vars

\* an ordered list of an unchecked item, a checked item and two plain items
C29_Witness ==
    /\ pc = "returned"
    /\ Len(soup.children) = 1
    /\ soup.children[1].name = "ol"
    /\ result.markdown =
           << "-", SP, "[", SP, "]", SP, "a", NL,
              "-", SP, "[", "x", "]", SP, "a", NL,
              "1", ".", SP, "a", NL >>

(***************************************************************************)
(* The paths of the notes (SpecExport)                                     *)
(***************************************************************************)
\* C30: after any sequence of notes has been registered in the first pass,
\* two notes with different GUIDs have different relative paths and
\* different absolute paths, compared without regard to case, with
\* links_with_folders set or not
C30_PathsInjective ==
    \A g1 \in DOMAIN export.guid_to_path_rel, g2 \in DOMAIN export.guid_to_path_rel :
        g1 # g2 =>
            /\ Lower(export.guid_to_path_rel[g1]) # Lower(export.guid_to_path_rel[g2])
            /\ Lower(export.guid_to_path_abs[g1]) # Lower(export.guid_to_path_abs[g2])

=============================================================================
